---- MODULE Spec2Model ----
(***************************************************************************)
(* A model of the VAST core: LogManager (audit log), GaugeMonitor (alert   *)
(* cooldown), EEUCC (decision engine), BeliefManager (belief store) and    *)
(* JWMC (belief revision).                                                 *)
(*                                                                         *)
(* Numbers.  A JavaScript number that the code only stores and compares is *)
(* an integer count of a fixed unit (1/10000 for utilities in the log,     *)
(* 1/100 for probabilities and confidences); a number the code computes by *)
(* multiplication or division is an exact rational <<n, d>> with d > 0.    *)
(* A number that may be NaN is the record [fin, v].                        *)
(***************************************************************************)
EXTENDS Integers, Sequences, FiniteSets, TLC

VARIABLES
  logs,         \* LogManager.logs: the sequence of stored entries
  tickCounter,  \* LogManager.tickCounter
  startTime,    \* LogManager.startTime
  logClock,     \* the wall clock read by LogManager (Date.now())
  logRet,       \* the last LogManager call: [op, arg, val]
  scoreHistory,     \* GaugeMonitor.scoreHistory
  lastAlerts,       \* GaugeMonitor.lastAlerts: gauge -> time of its last alert
  windowSize,       \* GaugeMonitor.windowSize
  alertCooldownMs,  \* GaugeMonitor.alertCooldownMs
  thresholds,       \* GaugeMonitor.thresholds
  gaugeClock,       \* the wall clock read by GaugeMonitor (Date.now())
  gaugeCalls,       \* calculate calls made so far
  emitted,          \* every alert returned so far, in order of emission
  gaugeRet,         \* the last GaugeMonitor call: [op, arg, val]
  eeParams,         \* EEUCC.params
  eeConstraints,    \* EEUCC.constraints
  eeRet,            \* the last EEUCC call: [op, arg, val]
  jwParams,         \* JWMC.params
  jwCore,           \* JWMC.coreMoralPrinciples
  jwRet,            \* the last JWMC call: [op, arg, val]
  bmBeliefs,        \* BeliefManager.beliefs: the Map's entries in insertion order
  bmChains,         \* BeliefManager.justification_chains
  bmRet             \* the last BeliefManager call: [op, arg, val]

logVars == <<logs, tickCounter, startTime, logClock, logRet>>

gaugeVars ==
  <<scoreHistory, lastAlerts, windowSize, alertCooldownMs, thresholds,
    gaugeClock, gaugeCalls, emitted, gaugeRet>>

eeVars == <<eeParams, eeConstraints, eeRet>>

bmVars == <<bmBeliefs, bmChains, bmRet>>

jwVars == <<jwParams, jwCore, jwRet>>

vars == <<logVars, gaugeVars, eeVars, bmVars, jwVars>>

(***************************************************************************)
(* Generic helpers                                                         *)
(***************************************************************************)

Min2(a, b) == IF a <= b THEN a ELSE b

Abs(x) == IF x < 0 THEN -x ELSE x

\* The object spread {...a, ...b}: b's properties override a's.
Spread(a, b) ==
  [k \in (DOMAIN a) \cup (DOMAIN b) |-> IF k \in DOMAIN b THEN b[k] ELSE a[k]]

\* Exact arithmetic on rationals <<n, d>> in lowest terms, d > 0.
RECURSIVE GCD(_, _)
GCD(a, b) == IF b = 0 THEN a ELSE GCD(b, a % b)

R(n, d) == LET g == GCD(Abs(n), d) IN <<n \div g, d \div g>>

RAdd(x, y) ==
  LET g == GCD(x[2], y[2])
  IN R(x[1] * (y[2] \div g) + y[1] * (x[2] \div g), (x[2] \div g) * y[2])
RSub(x, y) == RAdd(x, <<-y[1], y[2]>>)
RMul(x, y) == R(x[1] * y[1], x[2] * y[2])
RLt(x, y) == x[1] * y[2] < y[1] * x[2]
RLe(x, y) == x[1] * y[2] <= y[1] * x[2]
RMax(x, y) == IF RLt(x, y) THEN y ELSE x
RMin(x, y) == IF RLt(y, x) THEN y ELSE x

\* x / y for y # 0
RDiv(x, y) ==
  IF y[1] > 0 THEN R(x[1] * y[2], x[2] * y[1]) ELSE R(-(x[1] * y[2]), -(x[2] * y[1]))

\* Math.pow(x, k) for an integer k >= 0
RECURSIVE RPow(_, _)
RPow(x, k) == IF k = 0 THEN <<1, 1>> ELSE RMul(x, RPow(x, k - 1))

\* The value of a missing property, and of Array.prototype.find without a match.
Undefined == [undefined |-> TRUE]


(***************************************************************************)
(* Construction: the state of each component after its constructor.  A     *)
(* specification of one component holds the others at these values.        *)
(***************************************************************************)

\* GaugeMonitor's constructor with its default thresholds (in 1/10000); the
\* window size and the cooldown are the caller's.
GaugeFreshWith(w, cd) ==
  /\ scoreHistory = <<>>
  /\ lastAlerts = <<>>
  /\ windowSize = w
  /\ alertCooldownMs = cd
  /\ thresholds = [excellent |-> 7500, good |-> 6000, fair |-> 4000]
  /\ gaugeClock = 0
  /\ gaugeCalls = 0
  /\ emitted = <<>>
  /\ gaugeRet = [op |-> "new", arg |-> <<>>, val |-> <<>>]

GaugeFresh == GaugeFreshWith(1, 0)

\* sortConstraintsByPriority: [...constraints].sort((a, b) => a.priority - b.priority),
\* a stable sort: each constraint goes after those of the same or a higher priority.
RECURSIVE InsertByPriority(_, _)
InsertByPriority(sorted, c) ==
  IF sorted = <<>> THEN <<c>>
  ELSE IF Head(sorted).priority <= c.priority
       THEN <<Head(sorted)>> \o InsertByPriority(Tail(sorted), c)
       ELSE <<c>> \o sorted

RECURSIVE SortConstraintsByPriority(_)
SortConstraintsByPriority(constraints) ==
  IF constraints = <<>> THEN <<>>
  ELSE InsertByPriority(
         SortConstraintsByPriority(SubSeq(constraints, 1, Len(constraints) - 1)),
         constraints[Len(constraints)])

\* A variant of SortCopyByPriority that sorts the array it is given.
SortArgumentByPriority(constraints) ==
  [argument |-> SortConstraintsByPriority(constraints),
   sorted   |-> SortConstraintsByPriority(constraints)]

\* [...constraints].sort(...): Array.prototype.sort sorts in place, here the
\* spread copy; `argument` is the array passed in, as the call leaves it.
SortCopyByPriority(constraints) ==
  [argument |-> constraints,
   sorted   |-> SortConstraintsByPriority(constraints)]

\* validateParams of EEUCC: TRUE when it does not throw.
EEUCCParamsValid(params) ==
  ~(RLe(params.lambda, <<0, 1>>) \/ RLe(<<1, 1>>, params.lambda))

\* EEUCC's constructor, when it does not throw.
EEUCCFreshWith(params, constraints) ==
  /\ EEUCCParamsValid(params)
  /\ eeParams = params
  /\ eeConstraints = SortCopyByPriority(constraints).sorted
  /\ eeRet = [op |-> "new", arg |-> constraints, val |-> <<>>,
              after |-> SortCopyByPriority(constraints).argument]

EEUCCFresh == EEUCCFreshWith([lambda |-> <<3, 5>>, base_utility_fn |-> "none"], <<>>)

\* validateParams of JWMC: TRUE when it does not throw.
JWMCParamsValid(params) ==
  /\ ~(RLt(params.alpha, <<0, 1>>) \/ RLt(<<1, 1>>, params.alpha))
  /\ ~(RLt(params.beta, <<0, 1>>) \/ RLt(<<1, 1>>, params.beta))
  /\ ~(RLt(params.gamma, <<0, 1>>) \/ RLt(<<1, 1>>, params.gamma))

\* JWMC's constructor, when it does not throw.
JWMCFreshWith(params, coreMoralPrinciples) ==
  /\ JWMCParamsValid(params)
  /\ jwParams = params
  /\ jwCore = coreMoralPrinciples
  /\ jwRet = [op |-> "new", arg |-> <<>>, val |-> <<>>]

JWMCFresh ==
  JWMCFreshWith([alpha |-> <<3, 4>>, beta |-> <<1, 2>>, gamma |-> <<1, 2>>], {})

\* BeliefManager's constructor.
BeliefManagerFresh ==
  /\ bmBeliefs = <<>>
  /\ bmChains = <<>>
  /\ bmRet = [op |-> "new", arg |-> <<>>, val |-> <<>>]

\* LogManager's constructor.
LogFresh ==
  /\ logs = <<>>
  /\ tickCounter = 0
  /\ startTime = 0
  /\ logClock = 0
  /\ logRet = [op |-> "new", arg |-> <<>>, val |-> <<>>]

(***************************************************************************)
(* LogManager (src/src/core/gauges/GaugeMonitor.ts, 565-1001)              *)
(***************************************************************************)

MaxLogs == 2        \* appends allowed before the model stops appending
MaxLogClock == 1    \* largest wall-clock reading of the log's clock

Num(n) == [fin |-> TRUE, v |-> n]
NaN == [fin |-> FALSE, v |-> 0]

ScenarioId == "scn"

\* An EUBreakdown as a log entry carries it (types.ts, 74-80); utilities in 1/10000.
Breakdown(a, base, cs, total) ==
  [action_id |-> a, eu_base |-> base, constraints |-> cs, eeu_total |-> total]

Violation(c, pen) == [constraint_id |-> c, penalty |-> pen]

\* GaugeScores with every gauge at g (1/100).
Scores(g, o) ==
  [calibration |-> g, normative_alignment |-> g, coherence |-> g,
   reasoning |-> g, overall_vast_score |-> o]

Bd1 == <<Breakdown("a1", Num(5950), <<>>, Num(5950))>>
Bd2 ==
  <<Breakdown("a2", Num(7000), <<Violation("c1", 4410)>>, Num(2590)),
    Breakdown("a1", Num(4320), <<>>, Num(4320))>>
Bd3 == <<Breakdown("a1", Num(5950), <<Violation("c2", 5)>>, Num(5945))>>
Bd4 == <<Breakdown("a1", NaN, <<>>, NaN)>>

Entry(a, b, g, al) ==
  [chosen_action |-> a, eeucc_breakdown |-> b, gauge_scores |-> g, alerts |-> al]

Alert(g, sev) == [gauge |-> g, severity |-> sev]

\* What a caller hands to append: the typed fields, and possibly properties of
\* its own named tick, timestamp and scenario_id (a whole LogEntry passed back).
CallerEntries ==
  { Entry("a1", Bd1, Scores(80, 80), <<>>),
    Entry("a2", Bd2, Scores(70, 80), <<Alert("coherence", "warning")>>),
    Entry("a1", Bd3, Scores(80, 74), <<>>),
    Entry("a2", Bd1, Scores(76, 80), <<>>),
    Entry("a1", Bd4, Scores(80, 80), <<Alert("overall", "critical")>>),
    Spread(Entry("a1", Bd2, Scores(80, 80), <<>>),
           [tick |-> 7, timestamp |-> 0, scenario_id |-> "other"]) }

\* A LogManager call leaves the other components alone.
LogFrame == UNCHANGED <<gaugeVars, eeVars, bmVars, jwVars>>

\* tick: this.tickCounter++ (the value before the increment)
NextTick(counter) == counter

\* A variant of FullEntry with the spread last, so the caller's properties win.
FullEntryCallerWins(entry, counter, now, sid) ==
  Spread([tick |-> NextTick(counter), timestamp |-> now, scenario_id |-> sid], entry)

\* fullEntry = {...entry, tick, timestamp, scenario_id}
FullEntry(entry, counter, now, sid) ==
  Spread(entry, [tick |-> NextTick(counter), timestamp |-> now, scenario_id |-> sid])

\* A variant of PushLog that puts the entry first (unshift).
PushLogFirst(ls, e) == <<e>> \o ls

\* this.logs.push(fullEntry)
PushLog(ls, e) == Append(ls, e)

\* Date.now(): a reading not earlier than the last one.
LogNow == {t \in logClock..MaxLogClock : t <= logClock + 1}

LogAppend ==
  /\ Len(logs) < MaxLogs
  /\ \E entry \in CallerEntries, now \in LogNow :
       LET fullEntry == FullEntry(entry, tickCounter, now, ScenarioId) IN
         /\ logs' = PushLog(logs, fullEntry)
         /\ tickCounter' = tickCounter + 1
         /\ logClock' = now
         /\ logRet' = [op |-> "append", arg |-> entry, val |-> fullEntry]
  /\ UNCHANGED startTime
  /\ LogFrame

\* getAllLogs: a shallow copy of every entry.
LogGetAllLogs ==
  /\ logRet' = [op |-> "getAllLogs", arg |-> <<>>,
                val |-> [i \in 1..Len(logs) |-> Spread(logs[i], logs[i])]]
  /\ UNCHANGED <<logs, tickCounter, startTime, logClock>>
  /\ LogFrame

\* hasGaugeDrop: some score fell by more than 0.05 (5/100).
HasGaugeDrop(prev, current) ==
  \/ current.calibration < prev.calibration - 5
  \/ current.normative_alignment < prev.normative_alignment - 5
  \/ current.coherence < prev.coherence - 5
  \/ current.reasoning < prev.reasoning - 5
  \/ current.overall_vast_score < prev.overall_vast_score - 5

\* ExportOptions['filters']: 0, {} and FALSE stand for an option left out
\* (each is falsy, or an empty list, in the code's tests).
Filters(st, en, acts, cids, drops) ==
  [start_time |-> st, end_time |-> en, actions |-> acts,
   constraint_ids |-> cids, gauge_drops |-> drops]

NoFilters == Filters(0, 0, {}, {}, FALSE)

FilterInputs ==
  { NoFilters, Filters(1, 0, {}, {}, FALSE), Filters(0, 1, {}, {}, FALSE),
    Filters(0, 0, {"a1"}, {}, FALSE), Filters(0, 0, {}, {"c1"}, FALSE),
    Filters(0, 0, {}, {}, TRUE) }

\* The predicate of filterLogs for one entry of this.logs.
KeepLog(ls, log, options) ==
  /\ ~(options.start_time # 0 /\ log.timestamp < options.start_time)
  /\ ~(options.end_time # 0 /\ log.timestamp > options.end_time)
  /\ (options.actions # {} => log.chosen_action \in options.actions)
  /\ (options.constraint_ids # {} =>
        \E i \in 1..Len(log.eeucc_breakdown) :
          \E j \in 1..Len(log.eeucc_breakdown[i].constraints) :
            log.eeucc_breakdown[i].constraints[j].constraint_id
              \in options.constraint_ids)
  /\ (options.gauge_drops =>
        \* prevLog = this.logs[log.tick - 1], a 0-based index
        (log.tick \in 1..Len(ls) =>
           HasGaugeDrop(ls[log.tick].gauge_scores, log.gauge_scores)))

FilterLogs(ls, options) ==
  LET Keep(log) == KeepLog(ls, log, options) IN SelectSeq(ls, Keep)

LogFilterLogs ==
  /\ \E options \in FilterInputs :
       logRet' = [op |-> "filterLogs", arg |-> options,
                  val |-> FilterLogs(logs, options)]
  /\ UNCHANGED <<logs, tickCounter, startTime, logClock>>
  /\ LogFrame

IsUndefined(x) == "undefined" \in DOMAIN x

\* log.eeucc_breakdown.find(b => b.action_id === log.chosen_action)
ChosenBreakdown(log) ==
  LET hits == {i \in 1..Len(log.eeucc_breakdown) :
                 log.eeucc_breakdown[i].action_id = log.chosen_action}
  IN IF hits = {} THEN Undefined
     ELSE log.eeucc_breakdown[CHOOSE i \in hits : \A j \in hits : i <= j]

RECURSIVE CountAction(_, _)
CountAction(ls, a) ==
  IF ls = <<>> THEN 0
  ELSE (IF Head(ls).chosen_action = a THEN 1 ELSE 0) + CountAction(Tail(ls), a)

RECURSIVE CountSeverity(_, _)
CountSeverity(ls, sev) ==
  IF ls = <<>> THEN 0
  ELSE Cardinality({i \in 1..Len(Head(ls).alerts) :
                      Head(ls).alerts[i].severity = sev})
       + CountSeverity(Tail(ls), sev)

RECURSIVE TotalGauge(_, _)
TotalGauge(ls, g) ==
  IF ls = <<>> THEN 0 ELSE Head(ls).gauge_scores[g] + TotalGauge(Tail(ls), g)

GaugeFields ==
  {"calibration", "normative_alignment", "coherence", "reasoning",
   "overall_vast_score"}

\* buildAuditTrail: an average is kept as the exact quotient <<total, count>>.
BuildAuditTrail(ls, counter, stTime, now) ==
  LET count == IF Len(ls) = 0 THEN 1 ELSE Len(ls)
      acts == {ls[i].chosen_action : i \in 1..Len(ls)}
      sevs == UNION {{ls[i].alerts[j].severity : j \in 1..Len(ls[i].alerts)} :
                       i \in 1..Len(ls)}
  IN [scenario_id |-> ScenarioId,
      start_time |-> stTime,
      end_time |-> now,
      total_ticks |-> counter,
      logs |-> ls,
      summary |->
        [total_decisions |-> Len(ls),
         action_distribution |-> [a \in acts |-> CountAction(ls, a)],
         average_gauges |-> [g \in GaugeFields |-> <<TotalGauge(ls, g), count>>],
         alerts_by_severity |-> [sv \in sevs |-> CountSeverity(ls, sv)]]]

\* JSON.stringify followed by JSON.parse: a number that is not finite comes
\* back as null, everything else the model carries comes back as it was.
JsonNull == [null |-> TRUE]

JsonNum(x) == IF x.fin THEN [null |-> FALSE, v |-> x.v] ELSE JsonNull

JsonBreakdown(b) ==
  [action_id |-> b.action_id, eu_base |-> JsonNum(b.eu_base),
   constraints |-> b.constraints, eeu_total |-> JsonNum(b.eeu_total)]

JsonEntry(e) ==
  [k \in DOMAIN e |->
     IF k = "eeucc_breakdown"
     THEN [i \in 1..Len(e[k]) |-> JsonBreakdown(e[k][i])]
     ELSE e[k]]

JsonLogs(ls) == [i \in 1..Len(ls) |-> JsonEntry(ls[i])]

\* A string handed to JSON.parse: text that is no JSON, or the parsed value.
NotJson == [kind |-> "text"]
JsonDoc(v) == [kind |-> "json", val |-> v]

\* exportJSON: JSON.stringify(auditTrail)
ExportJSON(trail) == JsonDoc([trail EXCEPT !.logs = JsonLogs(trail.logs)])

\* toFixed(4) of a number counted in 1/10000
ToFixed4(x) == IF x.fin THEN [fixed4 |-> x.v] ELSE [text |-> "NaN"]

RECURSIVE SumPenalty(_)
SumPenalty(vs) == IF vs = <<>> THEN 0 ELSE Head(vs).penalty + SumPenalty(Tail(vs))

\* One row of exportCSV.
CsvRow(log) ==
  LET chosen == ChosenBreakdown(log)
      none == IsUndefined(chosen)
  IN [Tick |-> log.tick,
      Timestamp |-> log.timestamp,
      ChosenAction |-> log.chosen_action,
      BaseEU |-> IF none THEN [text |-> "0"] ELSE ToFixed4(chosen.eu_base),
      TotalPenalty |-> IF none THEN [text |-> "0"]
                       ELSE ToFixed4(Num(SumPenalty(chosen.constraints))),
      FinalEEU |-> IF none THEN [text |-> "0"] ELSE ToFixed4(chosen.eeu_total),
      Calibration |-> log.gauge_scores.calibration,
      Normative |-> log.gauge_scores.normative_alignment,
      Coherence |-> log.gauge_scores.coherence,
      Reasoning |-> log.gauge_scores.reasoning,
      OverallVAST |-> log.gauge_scores.overall_vast_score,
      Alerts |-> Len(log.alerts),
      Violations |-> IF none THEN 0 ELSE Len(chosen.constraints)]

ExportCSV(ls) == [kind |-> "csv", rows |-> [i \in 1..Len(ls) |-> CsvRow(ls[i])]]

ExportFormats == {"json", "csv", "pdf", "xml"}

\* export(options)
Export(ls, counter, stTime, now, format, filters) ==
  LET filteredLogs == FilterLogs(ls, filters)
      auditTrail == BuildAuditTrail(filteredLogs, counter, stTime, now)
  IN CASE format = "json" -> ExportJSON(auditTrail)
       [] format = "csv" -> ExportCSV(filteredLogs)
       [] format = "pdf" -> ExportJSON(auditTrail)
       [] OTHER -> [kind |-> "error", message |-> "Unsupported export format"]

\* export reads the clock only for end_time, which no later call reads.
LogExport ==
  /\ \E format \in ExportFormats, filters \in {NoFilters, Filters(0, 0, {"a1"}, {}, FALSE)} :
       logRet' = [op |-> "export", arg |-> <<format, filters>>,
                  val |-> Export(logs, tickCounter, startTime, logClock, format, filters)]
  /\ UNCHANGED <<logs, tickCounter, startTime, logClock>>
  /\ LogFrame

\* calculateIntegrityHash hashes JSON.stringify(keyData); the model keeps
\* keyData itself, the (tick, action, eeu) triples in log order, as the hash.
KeyData(ls) ==
  [i \in 1..Len(ls) |->
     LET chosen == ChosenBreakdown(ls[i]) IN
       [tick |-> ls[i].tick, action |-> ls[i].chosen_action,
        eeu |-> IF IsUndefined(chosen) THEN Undefined ELSE JsonNum(chosen.eeu_total)]]

\* exportGoldenLog: the audit trail of this.logs plus golden_metadata.
ExportGoldenLog(ls, counter, stTime, now) ==
  LET auditTrail == BuildAuditTrail(ls, counter, stTime, now) IN
    JsonDoc(Spread([auditTrail EXCEPT !.logs = JsonLogs(ls)],
                   [golden_metadata |->
                      [created_at |-> now, version |-> "1.0.0",
                       total_ticks |-> counter, integrity_hash |-> KeyData(ls)]]))

\* Reading a property: undefined when the object has none of that name.
Prop(o, k) == IF k \in DOMAIN o THEN [def |-> TRUE, v |-> o[k]] ELSE [def |-> FALSE]

\* A null in arithmetic counts as 0.
ToNumber(j) == IF j.null THEN 0 ELSE j.v

EeuTolerance == 10   \* 0.001, in 1/10000

Diff(kind, at) == [kind |-> kind, at |-> at]

ParseFailure == Diff("Failed to parse golden log", -1)

\* find(b => b.action_id === log.chosen_action) on a parsed log entry
ParsedChosen(e) ==
  LET hits == {i \in 1..Len(e.eeucc_breakdown) :
                 Prop(e.eeucc_breakdown[i], "action_id") = Prop(e, "chosen_action")}
  IN IF hits = {} \/ "chosen_action" \notin DOMAIN e THEN Undefined
     ELSE e.eeucc_breakdown[CHOOSE i \in hits : \A j \in hits : i <= j]

\* The action comparison loop at 0-based position i.
ActionDiffAt(g, a, i) ==
  IF Prop(g[i + 1], "chosen_action") # Prop(a[i + 1], "chosen_action")
  THEN <<Diff("Action mismatch", i)>> ELSE <<>>

RECURSIVE ActionDiffs(_, _, _, _)
ActionDiffs(g, a, i, n) ==
  IF i >= n THEN <<>> ELSE ActionDiffAt(g, a, i) \o ActionDiffs(g, a, i + 1, n)

\* A variant of EeuDiffAt with the tolerance test the wrong way round.
EeuDiffAtFlipped(gb, ab, i) ==
  IF Abs(ToNumber(gb.eeu_total) - ToNumber(ab.eeu_total)) < EeuTolerance
  THEN <<Diff("EEU mismatch", i)>> ELSE <<>>

\* The EEU comparison at 0-based position i (both breakdowns are found).
EeuDiffAt(gb, ab, i) ==
  IF Abs(ToNumber(gb.eeu_total) - ToNumber(ab.eeu_total)) > EeuTolerance
  THEN <<Diff("EEU mismatch", i)>> ELSE <<>>

\* A variant of EeuDiffs that passes over a golden entry with no
\* eeucc_breakdown (as `eeucc_breakdown?.find` would) instead of throwing.
RECURSIVE EeuDiffsSkipMissing(_, _, _, _)
EeuDiffsSkipMissing(g, a, i, n) ==
  IF i >= n THEN [diffs |-> <<>>, threw |-> FALSE]
  ELSE LET gb == IF "eeucc_breakdown" \in DOMAIN g[i + 1]
                 THEN ParsedChosen(g[i + 1]) ELSE Undefined
           ab == ParsedChosen(a[i + 1])
           here == IF ~IsUndefined(gb) /\ ~IsUndefined(ab)
                   THEN EeuDiffAt(gb, ab, i) ELSE <<>>
           rest == EeuDiffsSkipMissing(g, a, i + 1, n)
       IN [diffs |-> here \o rest.diffs, threw |-> FALSE]

\* The EEU comparison loop from position i: the differences it pushes, and
\* whether it threw (a golden entry with no eeucc_breakdown to call find on).
RECURSIVE EeuDiffs(_, _, _, _)
EeuDiffs(g, a, i, n) ==
  IF i >= n THEN [diffs |-> <<>>, threw |-> FALSE]
  ELSE IF "eeucc_breakdown" \notin DOMAIN g[i + 1]
       THEN [diffs |-> <<>>, threw |-> TRUE]
       ELSE LET gb == ParsedChosen(g[i + 1])
                ab == ParsedChosen(a[i + 1])
                here == IF ~IsUndefined(gb) /\ ~IsUndefined(ab)
                        THEN EeuDiffAt(gb, ab, i) ELSE <<>>
                rest == EeuDiffs(g, a, i + 1, n)
            IN [diffs |-> here \o rest.diffs, threw |-> rest.threw]

ValidationResult(differences) ==
  [valid |-> Len(differences) = 0, differences |-> differences]

\* validateAgainstGolden(actualLog, goldenLogJSON)
ValidateAgainstGolden(ls, counter, stTime, now, goldenLogJSON) ==
  IF goldenLogJSON.kind # "json" THEN ValidationResult(<<ParseFailure>>)
  ELSE
    LET goldenData == goldenLogJSON.val
        actualData == ExportGoldenLog(ls, counter, stTime, now).val
    IN IF "null" \in DOMAIN goldenData THEN ValidationResult(<<ParseFailure>>)
       ELSE
         LET ticks == IF Prop(goldenData, "total_ticks")
                           # Prop(actualData, "total_ticks")
                      THEN <<Diff("Tick count mismatch", -1)>> ELSE <<>>
         IN IF "logs" \notin DOMAIN goldenData
            THEN ValidationResult(ticks \o <<ParseFailure>>)
            ELSE
              LET n == Min2(Len(goldenData.logs), Len(actualData.logs))
                  acts == ActionDiffs(goldenData.logs, actualData.logs, 0, n)
                  eeus == EeuDiffs(goldenData.logs, actualData.logs, 0, n)
              IN ValidationResult(
                   ticks \o acts \o eeus.diffs
                     \o (IF eeus.threw THEN <<ParseFailure>> ELSE <<>>))

\* Golden strings a caller may hold: text that is no JSON, JSON null, JSON
\* without a logs array, JSON whose log entry has no breakdowns, the fresh
\* export of this log, the export taken before the last append, and the
\* export of another run.
GoldenInputs(ls, counter, stTime, now) ==
  { NotJson,
    JsonDoc(JsonNull),
    JsonDoc([total_ticks |-> counter]),
    JsonDoc([total_ticks |-> counter, logs |-> <<[chosen_action |-> "a1"]>>]),
    ExportGoldenLog(ls, counter, stTime, now),
    ExportGoldenLog(<<FullEntry(Entry("a1", Bd3, Scores(80, 80), <<>>), 0, 0, ScenarioId)>>,
                    1, 0, now) }
  \cup
  (IF Len(ls) = 0 THEN {}
   ELSE {ExportGoldenLog(SubSeq(ls, 1, Len(ls) - 1), counter - 1, stTime, now)})

LogExportGoldenLog ==
  /\ logRet' = [op |-> "exportGoldenLog", arg |-> <<>>,
                val |-> ExportGoldenLog(logs, tickCounter, startTime, logClock)]
  /\ UNCHANGED <<logs, tickCounter, startTime, logClock>>
  /\ LogFrame

LogValidateAgainstGolden ==
  /\ \E golden \in GoldenInputs(logs, tickCounter, startTime, logClock) :
       logRet' = [op |-> "validateAgainstGolden", arg |-> golden,
                  val |-> ValidateAgainstGolden(logs, tickCounter, startTime,
                                                logClock, golden)]
  /\ UNCHANGED <<logs, tickCounter, startTime, logClock>>
  /\ LogFrame

\* clear(): the bulk reset.
LogClear ==
  /\ \E now \in LogNow :
       /\ logs' = <<>>
       /\ tickCounter' = 0
       /\ startTime' = now
       /\ logClock' = now
  /\ logRet' = [op |-> "clear", arg |-> <<>>, val |-> <<>>]
  /\ LogFrame

LogInit == LogFresh /\ GaugeFresh /\ EEUCCFresh /\ BeliefManagerFresh /\ JWMCFresh

LogNext ==
  \/ LogAppend
  \/ LogGetAllLogs
  \/ LogFilterLogs
  \/ LogExport
  \/ LogExportGoldenLog
  \/ LogValidateAgainstGolden
  \/ LogClear

LogSpec == LogInit /\ [][LogNext]_vars

(***************************************************************************)
(* LogManager: properties                                                  *)
(***************************************************************************)

\* C1: the entry stored and returned by the k-th append since construction
\* has tick k, whatever properties the caller's entry carries; the stored
\* ticks are 0, 1, ..., n-1 in log order.
C1_TicksCountAppends ==
  /\ \A i \in 1..Len(logs) : logs[i].tick = i - 1
  /\ logRet.op = "append" =>
       /\ logRet.val = logs[Len(logs)]
       /\ logRet.val.tick = Len(logs) - 1

\* C1 witness: a second append whose entry carried a tick of the caller's own.
C1_Witness ==
  /\ logRet.op = "append"
  /\ "tick" \in DOMAIN logRet.arg
  /\ logRet.arg.tick # logRet.val.tick
  /\ Len(logs) = 2

\* C2: a step that is not clear() keeps every stored entry at its position
\* with its content; an append adds exactly one entry at the end, and every
\* other call leaves the log as it was.
C2_AppendOnly ==
  [][logRet'.op # "clear" =>
       /\ Len(logs') >= Len(logs)
       /\ SubSeq(logs', 1, Len(logs)) = logs
       /\ (logRet'.op = "append" => Len(logs') = Len(logs) + 1)
       /\ (logRet'.op # "append" => logs' = logs)]_vars

\* C2 witness: reads and exports after two appends, the log still holding both.
C2_Witness ==
  /\ Len(logs) = 2
  /\ logRet.op \in {"filterLogs", "export", "validateAgainstGolden"}
  /\ logs[1].tick = 0 /\ logs[2].tick = 1

\* C3: in every state, validating the log against its own fresh golden
\* export gives valid = true and no differences.
C3_GoldenRoundTrip ==
  ValidateAgainstGolden(logs, tickCounter, startTime, logClock,
                        ExportGoldenLog(logs, tickCounter, startTime, logClock))
    = [valid |-> TRUE, differences |-> <<>>]

\* C3 witness: validateAgainstGolden was called with the fresh export of a
\* log of two entries, one of them with a NaN utility, and found it valid.
C3_Witness ==
  /\ logRet.op = "validateAgainstGolden"
  /\ logRet.arg = ExportGoldenLog(logs, tickCounter, startTime, logClock)
  /\ logRet.val.valid
  /\ Len(logs) = 2
  /\ \E i \in 1..2 : ~IsUndefined(ChosenBreakdown(logs[i]))
                       /\ ~ChosenBreakdown(logs[i]).eeu_total.fin

\* C20: every entry filterLogs returns for gauge_drops alone has, in the log,
\* an entry whose tick is the tick before its own, and at least one of its
\* five scores is more than 0.05 below the same score of that entry; the
\* first entry of the log is no exception.
C20_GaugeDropsComparesWithPreviousTick ==
  (logRet.op = "filterLogs" /\ logRet.arg = Filters(0, 0, {}, {}, TRUE))
  => \A i \in 1..Len(logRet.val) :
       \E j \in 1..Len(logs) :
         /\ logs[j].tick = logRet.val[i].tick - 1
         /\ HasGaugeDrop(logs[j].gauge_scores, logRet.val[i].gauge_scores)

\* The same for the entries returned that are not the first entry of the log.
GaugeDropsOfLaterEntries ==
  (logRet.op = "filterLogs" /\ logRet.arg = Filters(0, 0, {}, {}, TRUE))
  => \A i \in 1..Len(logRet.val) :
       logRet.val[i] # logs[1] =>
         \E j \in 1..Len(logs) :
           /\ logs[j].tick = logRet.val[i].tick - 1
           /\ HasGaugeDrop(logs[j].gauge_scores, logRet.val[i].gauge_scores)

\* Golden strings that are no golden log: text that is no JSON, JSON null,
\* JSON without a logs array, JSON with a log entry without breakdowns.
IsNotJson(golden) == golden.kind # "json"
IsJsonNull(golden) == golden.kind = "json" /\ "null" \in DOMAIN golden.val
LacksLogs(golden) ==
  golden.kind = "json" /\ "null" \notin DOMAIN golden.val /\ "logs" \notin DOMAIN golden.val
EntriesWithoutBreakdowns(golden) ==
  IF golden.kind = "json" /\ "null" \notin DOMAIN golden.val /\ "logs" \in DOMAIN golden.val
  THEN {i \in 1..Len(golden.val.logs) : "eeucc_breakdown" \notin DOMAIN golden.val.logs[i]}
  ELSE {}
HasParseFailure(result) ==
  \E k \in 1..Len(result.differences) : result.differences[k] = ParseFailure

\* C21: validateAgainstGolden always returns a result, and for every golden
\* string that is no JSON, is JSON null, has no logs array or has a log
\* entry without breakdowns the result is valid = false with at least one
\* difference.
C21_MalformedGoldenIsInvalid ==
  logRet.op = "validateAgainstGolden" =>
    /\ logRet.val.valid = (Len(logRet.val.differences) = 0)
    /\ (IsNotJson(logRet.arg) \/ IsJsonNull(logRet.arg) \/ LacksLogs(logRet.arg)
          \/ EntriesWithoutBreakdowns(logRet.arg) # {})
         => (~logRet.val.valid /\ Len(logRet.val.differences) >= 1)

\* C21, as the code has it: validateAgainstGolden always returns a result
\* whose valid flag says that there are no differences; text that is no
\* JSON, JSON null and JSON without a logs array give valid = false with the
\* parse-failure difference; a golden entry without breakdowns does so when
\* the log under validation has an entry at the same position, and is not
\* looked at otherwise.
C21_ValidateCompletesWithResult ==
  logRet.op = "validateAgainstGolden" =>
    /\ logRet.val.valid = (Len(logRet.val.differences) = 0)
    /\ (IsNotJson(logRet.arg) \/ IsJsonNull(logRet.arg) \/ LacksLogs(logRet.arg))
         => (~logRet.val.valid /\ HasParseFailure(logRet.val))
    /\ (\E i \in EntriesWithoutBreakdowns(logRet.arg) : i <= Len(logs))
         => (~logRet.val.valid /\ HasParseFailure(logRet.val))
    /\ (EntriesWithoutBreakdowns(logRet.arg) # {}
          /\ \A i \in EntriesWithoutBreakdowns(logRet.arg) : i > Len(logs))
         => ~HasParseFailure(logRet.val)

\* C21 witness: a golden log whose first entry has no breakdowns was
\* validated against a log of at least one entry and found invalid.
C21_Witness ==
  /\ logRet.op = "validateAgainstGolden"
  /\ 1 \in EntriesWithoutBreakdowns(logRet.arg)
  /\ Len(logs) >= 1
  /\ ~logRet.val.valid
  /\ HasParseFailure(logRet.val)

(***************************************************************************)
(* GaugeMonitor (src/src/core/gauges/GaugeMonitor.ts, 19-551)              *)
(* Scores are counted in 1/10000.  The four gauge computations use log2    *)
(* and exp; calculate's action takes their results as inputs.              *)
(***************************************************************************)

MaxGaugeCalls == 3   \* calculate calls allowed before the model stops
MaxGaugeClock == 4   \* largest wall-clock reading of the monitor's clock

\* A GaugeMonitor call leaves the other components alone.
GaugeFrame == UNCHANGED <<logVars, eeVars, bmVars, jwVars>>

GaugeNames ==
  <<"calibration", "normative_alignment", "coherence", "reasoning", "overall">>

\* calculateOverallScore: the fixed weighted sum.
CalculateOverallScore(calibration, normative, coherence, reasoning) ==
  (25 * calibration + 35 * normative + 20 * coherence + 20 * reasoning) \div 100

\* The results of the four gauge computations on some beliefs.
SubScoreInputs ==
  { <<8000, 8000, 8000, 8000>>, <<3000, 3000, 3000, 3000>>,
    <<5000, 8000, 8000, 8000>>, <<4000, 6000, 8000, 3000>> }

\* The GaugeScores object of calculate.
GaugeScoresOf(sub, timestamp) ==
  [calibration |-> sub[1], normative_alignment |-> sub[2], coherence |-> sub[3],
   reasoning |-> sub[4],
   overall_vast_score |-> CalculateOverallScore(sub[1], sub[2], sub[3], sub[4]),
   timestamp |-> timestamp]

\* The score generateAlerts reads for a gauge.
ScoreOf(scores, name) ==
  IF name = "overall" THEN scores.overall_vast_score ELSE scores[name]

\* A variant of PushHistory that never shifts.
PushHistoryUnbounded(history, scores, w) == Append(history, scores)

\* this.scoreHistory.push(scores), then one shift() when longer than 2 x window
PushHistory(history, scores, w) ==
  LET pushed == Append(history, scores) IN
    IF Len(pushed) > w * 2 THEN Tail(pushed) ELSE pushed

\* this.lastAlerts.get(name) || 0
LastAlertOf(la, name) == IF name \in DOMAIN la THEN la[name] ELSE 0

\* The cooldown test of generateAlerts: TRUE when the gauge is skipped.
InCooldown(now, lastAlert, cooldown) == now - lastAlert < cooldown

\* The alert generateAlerts builds for one gauge, or Undefined.
AlertFor(name, score, now, la, cooldown, th) ==
  IF InCooldown(now, LastAlertOf(la, name), cooldown) THEN Undefined
  ELSE IF score < th.fair
       THEN [gauge |-> name, severity |-> "critical", score |-> score,
             threshold |-> th.fair, timestamp |-> now]
       ELSE IF score < th.good
            THEN [gauge |-> name, severity |-> "warning", score |-> score,
                  threshold |-> th.good, timestamp |-> now]
            ELSE Undefined

\* The alerts of gauges i.. of GaugeNames, in that order.
RECURSIVE AlertsFrom(_, _, _, _, _, _)
AlertsFrom(i, scores, now, la, cooldown, th) ==
  IF i > Len(GaugeNames) THEN <<>>
  ELSE LET alert == AlertFor(GaugeNames[i], ScoreOf(scores, GaugeNames[i]),
                             now, la, cooldown, th)
       IN (IF IsUndefined(alert) THEN <<>> ELSE <<alert>>)
            \o AlertsFrom(i + 1, scores, now, la, cooldown, th)

\* generateAlerts(scores): the alerts returned.
GenerateAlerts(scores, now, la, cooldown, th) ==
  AlertsFrom(1, scores, now, la, cooldown, th)

\* A variant of SetLastAlerts that records nothing.
SetLastAlertsNever(la, alerts, now) == la

\* this.lastAlerts.set(name, now) for every gauge that alerted.
SetLastAlerts(la, alerts, now) ==
  LET alerted == {alerts[i].gauge : i \in 1..Len(alerts)} IN
    [g \in (DOMAIN la) \cup alerted |-> IF g \in alerted THEN now ELSE la[g]]

\* scoreHistory.slice(-windowSize)
RecentWindow(history, w) ==
  IF Len(history) <= w THEN history
  ELSE SubSeq(history, Len(history) - w + 1, Len(history))

\* Sums of the linear regression over values (0-based x = index), with the
\* halves and the mean cleared: (2i - n + 1) is 2(i - xMean) and
\* (n * values[i] - sum) is n(values[i] - yMean).
RECURSIVE SumValues(_)
SumValues(values) ==
  IF values = <<>> THEN 0 ELSE Head(values) + SumValues(Tail(values))

RegressionNumerator(values) ==
  LET n == Len(values)
      total == SumValues(values)
      term(i) == (2 * i - n + 1) * (n * values[i + 1] - total)
      RECURSIVE upto(_)
      upto(i) == IF i < 0 THEN 0 ELSE term(i) + upto(i - 1)
  IN upto(n - 1)

RegressionDenominator(values) ==
  LET n == Len(values)
      term(i) == (2 * i - n + 1) * (2 * i - n + 1)
      RECURSIVE upto(_)
      upto(i) == IF i < 0 THEN 0 ELSE term(i) + upto(i - 1)
  IN upto(n - 1)

\* slope = denominator > 0 ? numerator / denominator : 0, as <<n, d>>, d > 0
Slope(values) ==
  IF RegressionDenominator(values) > 0
  THEN <<2 * RegressionNumerator(values), Len(values) * RegressionDenominator(values)>>
  ELSE <<0, 1>>

\* The GaugeTrend of one gauge; 0.01 is 100/10000.
TrendOf(name, window) ==
  LET values == [i \in 1..Len(window) |-> ScoreOf(window[i], name)]
      slope == Slope(values)
  IN [gauge |-> IF name = "overall" THEN "overall_vast_score" ELSE name,
      direction |-> IF Abs(slope[1]) < 100 * slope[2] THEN "stable"
                    ELSE IF slope[1] > 0 THEN "improving" ELSE "declining",
      magnitude |-> <<Abs(slope[1]), slope[2]>>,
      window_size |-> Len(values)]

\* detectTrends()
DetectTrends(history, w) ==
  IF Len(history) < 3 THEN <<>>
  ELSE [i \in 1..Len(GaugeNames) |-> TrendOf(GaugeNames[i], RecentWindow(history, w))]

\* Date.now(): a reading not earlier than t.
GaugeNow(t) == {u \in t..MaxGaugeClock : u <= t + 1}

\* calculate(beliefs, lastDecisionProposition, constraints, context)
GaugeCalculate ==
  /\ gaugeCalls < MaxGaugeCalls
  /\ \E sub \in SubScoreInputs, timestamp \in GaugeNow(gaugeClock) :
       \E now \in GaugeNow(timestamp) :
         LET scores == GaugeScoresOf(sub, timestamp)
             history == PushHistory(scoreHistory, scores, windowSize)
             alerts == GenerateAlerts(scores, now, lastAlerts, alertCooldownMs,
                                      thresholds)
             trends == DetectTrends(history, windowSize)
         IN /\ scoreHistory' = history
            /\ lastAlerts' = SetLastAlerts(lastAlerts, alerts, now)
            /\ gaugeClock' = now
            /\ emitted' = emitted \o alerts
            /\ gaugeRet' = [op |-> "calculate", arg |-> sub,
                            val |-> [scores |-> scores, alerts |-> alerts,
                                     trends |-> trends]]
  /\ gaugeCalls' = gaugeCalls + 1
  /\ UNCHANGED <<windowSize, alertCooldownMs, thresholds>>
  /\ GaugeFrame

\* getHistory(): a copy of the history.
GaugeGetHistory ==
  /\ gaugeRet' = [op |-> "getHistory", arg |-> <<>>, val |-> scoreHistory]
  /\ UNCHANGED <<scoreHistory, lastAlerts, windowSize, alertCooldownMs,
                 thresholds, gaugeClock, gaugeCalls, emitted>>
  /\ GaugeFrame

GaugeInit ==
  /\ \E w \in {1, 2}, cd \in {0, 2} : GaugeFreshWith(w, cd)
  /\ LogFresh
  /\ EEUCCFresh
  /\ BeliefManagerFresh
  /\ JWMCFresh

GaugeNext ==
  \/ GaugeCalculate
  \/ GaugeGetHistory

GaugeSpec == GaugeInit /\ [][GaugeNext]_vars

(***************************************************************************)
(* GaugeMonitor: properties                                                *)
(***************************************************************************)

\* C4: any two alerts emitted for the same gauge have timestamps that
\* differ by at least alert_cooldown_ms.
C4_AlertCooldown ==
  \A i \in 1..Len(emitted) : \A j \in 1..Len(emitted) :
    (i < j /\ emitted[i].gauge = emitted[j].gauge) =>
      emitted[j].timestamp - emitted[i].timestamp >= alertCooldownMs

\* C4 witness: with a cooldown of 2, a gauge alerted twice, and the last
\* call kept a gauge below its threshold silent.
C4_Witness ==
  /\ alertCooldownMs = 2
  /\ \E i \in 1..Len(emitted) : \E j \in 1..Len(emitted) :
       i < j /\ emitted[i].gauge = emitted[j].gauge
  /\ gaugeRet.op = "calculate"
  /\ \E k \in 1..Len(GaugeNames) :
       /\ ScoreOf(gaugeRet.val.scores, GaugeNames[k]) < thresholds.good
       /\ \A a \in 1..Len(gaugeRet.val.alerts) :
            gaugeRet.val.alerts[a].gauge # GaugeNames[k]

\* C12: a calculate call leaves a history of at most 2 x window_size entries
\* that is the end of the previous history followed by the scores just
\* computed: the new scores are last, the order is kept, and only the oldest
\* entry is ever dropped.
C12_HistoryKeepsMostRecent ==
  [][gaugeRet'.op = "calculate" /\ gaugeCalls' = gaugeCalls + 1
     => LET computed == Append(scoreHistory, gaugeRet'.val.scores)
            kept == Min2(Len(computed), 2 * windowSize)
        IN /\ Len(scoreHistory') <= 2 * windowSize
           /\ Len(scoreHistory') = kept
           /\ kept > 0 =>
                scoreHistory' = SubSeq(computed, Len(computed) - kept + 1, Len(computed))]_vars

\* C12 witness: a full history after a call that evicted its oldest entry.
C12_Witness ==
  /\ gaugeRet.op = "calculate"
  /\ gaugeCalls > 2 * windowSize
  /\ Len(scoreHistory) = 2 * windowSize
  /\ scoreHistory[Len(scoreHistory)] = gaugeRet.val.scores
  /\ scoreHistory[1] # scoreHistory[2]

\* C13: on a calculate call, a gauge for which no alert was emitted within
\* the preceding alert_cooldown_ms (a gauge that never alerted included) gets
\* exactly one alert when its score is below good, critical below fair and
\* warning otherwise, and no alert when its score is at least good.
C13_AlertOutsideCooldown ==
  [][gaugeRet'.op = "calculate" /\ gaugeCalls' = gaugeCalls + 1
     => \A k \in 1..Len(GaugeNames) :
          LET name == GaugeNames[k]
              score == ScoreOf(gaugeRet'.val.scores, name)
              now == gaugeClock'
              recent == \E i \in 1..Len(emitted) :
                          /\ emitted[i].gauge = name
                          /\ now - emitted[i].timestamp < alertCooldownMs
              isMine(alert) == alert.gauge = name
              mine == SelectSeq(gaugeRet'.val.alerts, isMine)
          IN ~recent =>
               IF score < thresholds.fair
               THEN Len(mine) = 1 /\ mine[1].severity = "critical"
               ELSE IF score < thresholds.good
                    THEN Len(mine) = 1 /\ mine[1].severity = "warning"
                    ELSE mine = <<>>]_vars

(***************************************************************************)
(* EEUCC (src/src/core/eeucc/EEUCC.ts): expected utility with cascading    *)
(* constraint penalties.  Numbers are exact rationals <<n, d>>.            *)
(***************************************************************************)

MaxActions == 2

EEUCCFrame == UNCHANGED <<logVars, gaugeVars, bmVars, jwVars>>

\* The keywords the engine looks for, per (lower-cased) string of the model:
\* Substrings[s] is the set of those keywords that occur in s.
Substrings ==
  [s \in {"treat", "deny_treatment", "delay_treatment", "abort_mission",
          "prioritize_younger", "discriminate", "coerce", "harm_reduction",
          "not_honesty", "preserve_life_support", "ghost",
          "success", "failure", "saves_cost", "ineffective", "partial_recovery",
          "stable", "unknown", "r1", "rule_preserve_life"} |->
     CASE s = "deny_treatment"        -> {"deny"}
       [] s = "delay_treatment"       -> {"delay"}
       [] s = "abort_mission"         -> {"abort"}
       [] s = "prioritize_younger"    -> {"prioritize", "younger"}
       [] s = "discriminate"          -> {"discriminate"}
       [] s = "coerce"                -> {"coerce"}
       [] s = "harm_reduction"        -> {"harm"}
       [] s = "not_honesty"           -> {"not_honesty"}
       [] s = "preserve_life_support" -> {"preserve", "life"}
       [] s = "success"               -> {"success"}
       [] s = "failure"               -> {"fail"}
       [] s = "saves_cost"            -> {"saves"}
       [] s = "ineffective"           -> {"effective", "ineffective"}
       [] s = "partial_recovery"      -> {"partial"}
       [] s = "rule_preserve_life"    -> {"preserve", "life", "preserve_life"}
       [] OTHER                       -> {}]

\* String.prototype.toLowerCase on the strings of the model.
ToLowerCase(s) ==
  CASE s = "Abort_Mission" -> "abort_mission"
    [] s = "Fairness"      -> "fairness"
    [] OTHER               -> s

\* String.prototype.includes.
Includes(s, keyword) == keyword \in Substrings[s]

\* Justifications, with the chain BeliefManager builds for them left out of
\* the comparison-relevant fields.
FullJustification ==
  [facts |-> <<"f1", "f2">>, rules |-> <<"r1">>, moral_principles |-> <<"preserve_life">>,
   context |-> "icu"]

SparseJustification ==
  [facts |-> <<"f1">>, rules |-> <<>>, moral_principles |-> <<"fairness">>, context |-> "icu"]

BeliefOf(prop, pi, kappa, J) ==
  [proposition |-> prop, pi |-> pi, kappa |-> kappa, J |-> J, timestamp |-> 0,
   source |-> "initial"]

\* beliefs: Map<string, Belief>, keyed by action id.  "ghost" has no belief;
\* "treat" and "delay_treatment" carry the same credence and confidence.
ActionBeliefs ==
  [a \in {"treat", "deny_treatment", "delay_treatment", "Abort_Mission",
          "prioritize_younger", "discriminate", "coerce", "harm_reduction",
          "not_honesty", "preserve_life_support"} |->
     CASE a \in {"treat", "delay_treatment"} ->
            BeliefOf(a, [success |-> <<7, 10>>, failure |-> <<3, 10>>], <<9, 10>>,
                     FullJustification)
       [] a = "deny_treatment" ->
            BeliefOf(a, [saves_cost |-> <<1, 2>>, ineffective |-> <<1, 2>>], <<4, 5>>,
                     SparseJustification)
       [] a = "preserve_life_support" ->
            BeliefOf(a, [stable |-> <<1, 2>>, partial_recovery |-> <<1, 2>>], <<1, 1>>,
                     FullJustification)
       [] OTHER ->
            BeliefOf(a, [unknown |-> <<3, 5>>, failure |-> <<2, 5>>], <<1, 2>>,
                     SparseJustification)]

\* Map.prototype.get.
MapGet(map, key) == IF key \in DOMAIN map THEN map[key] ELSE Undefined

ActionIds == DOMAIN ActionBeliefs \cup {"ghost"}

\* The ids that action lists of more than one entry are made of: two whose
\* beliefs agree on credence and confidence, and one without a belief.
RankedIds == {"treat", "delay_treatment", "ghost"}

RECURSIVE SeqsUpTo(_, _)
SeqsUpTo(S, n) ==
  IF n = 0 THEN {<<>>}
  ELSE LET shorter == SeqsUpTo(S, n - 1)
       IN shorter \cup {Append(q, x) : q \in {r \in shorter : Len(r) = n - 1}, x \in S}

\* actions: string[] of decide.
ActionLists == {<<a>> : a \in ActionIds} \cup SeqsUpTo(RankedIds, MaxActions)

\* context: ActionContext of decide.
Contexts == {[scenario |-> "icu", moral_stakes |-> <<9, 10>>]}

ConstraintOf(id, principle, priority, threshold, weight) ==
  [id |-> id, title |-> id, principle |-> principle, priority |-> priority,
   threshold |-> threshold, weight |-> weight]

\* Constraints a caller supplies: thresholds in [0,1], weights >= 0, unique ids.
ConstraintPool ==
  {ConstraintOf("c1", "preserve_life", 1, <<1, 10>>, <<9, 10>>),
   ConstraintOf("c2", "Fairness", 2, <<1, 2>>, <<1, 1>>),
   ConstraintOf("c3", "transparency", 2, <<3, 10>>, <<1, 2>>),
   ConstraintOf("c4", "honesty", 3, <<2, 5>>, <<2, 1>>),
   ConstraintOf("c5", "non_maleficence", 1, <<0, 1>>, <<1, 2>>),
   ConstraintOf("c6", "respect_dignity", 3, <<7, 10>>, <<3, 1>>)}

ConstraintIds(constraints) == {constraints[i].id : i \in 1..Len(constraints)}

\* params.base_utility_fn(action, context) of a caller: a utility per action.
CallerUtility(action, context) ==
  IF action = "treat" THEN <<3, 4>> ELSE <<1, 4>>

\* defaultUtilityHeuristic.
DefaultUtilityHeuristic(action, outcome, context) ==
  LET outcomeLower == ToLowerCase(outcome)
      actionLower  == ToLowerCase(action)
      moralStakes  == IF "moral_stakes" \in DOMAIN context /\ context.moral_stakes # <<0, 1>>
                      THEN context.moral_stakes
                      ELSE <<1, 2>>
  IN IF \/ Includes(outcomeLower, "success")
        \/ Includes(outcomeLower, "effective")
        \/ Includes(outcomeLower, "saves")
        \/ Includes(outcomeLower, "accurate")
     THEN <<1, 1>>
     ELSE IF \/ Includes(outcomeLower, "fail")
             \/ Includes(outcomeLower, "ineffective")
             \/ Includes(outcomeLower, "error")
             \/ Includes(outcomeLower, "false_positive")
     THEN <<0, 1>>
     ELSE IF Includes(outcomeLower, "partial")
     THEN <<1, 2>>
     ELSE IF Includes(actionLower, "life") \/ Includes(actionLower, "preserve")
     THEN RAdd(RMul(<<4, 5>>, moralStakes), <<1, 5>>)
     ELSE <<1, 2>>

\* getOutcomeUtility.
GetOutcomeUtility(params, action, outcome, context) ==
  IF params.base_utility_fn = "caller"
  THEN CallerUtility(action, context)
  ELSE DefaultUtilityHeuristic(action, outcome, context)

RECURSIVE SumUtilities(_, _, _, _, _)
SumUtilities(params, action, pi, outcomes, context) ==
  IF outcomes = {} THEN <<0, 1>>
  ELSE LET outcome == CHOOSE o \in outcomes : TRUE
       IN RAdd(RMul(pi[outcome], GetOutcomeUtility(params, action, outcome, context)),
               SumUtilities(params, action, pi, outcomes \ {outcome}, context))

\* calculateBaseEU.
CalculateBaseEU(params, action, belief, context) ==
  RMul(SumUtilities(params, action, belief.pi, DOMAIN belief.pi, context), belief.kappa)

\* The switch of checkConstraintViolation: the violation amount and the kind
\* of explanation the principle's rule assigns.
PrincipleRule(action, belief, constraint) ==
  LET actionLower == ToLowerCase(action)
      principle   == ToLowerCase(constraint.principle)
      none        == [amount |-> <<0, 1>>, explanation |-> ""]
  IN CASE principle = "preserve_life" ->
            IF \/ Includes(actionLower, "deny")
               \/ Includes(actionLower, "abort")
               \/ Includes(actionLower, "reject")
            THEN [amount |-> <<4, 5>>, explanation |-> "may threaten life preservation"]
            ELSE IF Includes(actionLower, "delay")
            THEN [amount |-> <<3, 10>>, explanation |-> "involves delay that may risk life"]
            ELSE none
       [] principle = "fairness" ->
            IF /\ Includes(actionLower, "prioritize")
               /\ (Includes(actionLower, "younger") \/ Includes(actionLower, "elderly"))
            THEN [amount |-> <<1, 2>>, explanation |-> "may violate procedural fairness"]
            ELSE IF Includes(actionLower, "discriminate")
            THEN [amount |-> <<9, 10>>, explanation |-> "involves discrimination"]
            ELSE none
       [] principle = "respect_dignity" ->
            IF \/ Includes(actionLower, "coerce")
               \/ Includes(actionLower, "deceive")
               \/ Includes(actionLower, "manipulate")
            THEN [amount |-> <<7, 10>>, explanation |-> "may violate human dignity"]
            ELSE none
       [] principle = "transparency" ->
            IF Len(belief.J.facts) + Len(belief.J.rules) + Len(belief.J.moral_principles) < 3
            THEN [amount |-> <<2, 5>>, explanation |-> "lacks sufficient justification"]
            ELSE none
       [] principle = "non_maleficence" ->
            IF \/ Includes(actionLower, "harm")
               \/ Includes(actionLower, "damage")
               \/ Includes(actionLower, "hurt")
            THEN [amount |-> <<4, 5>>, explanation |-> "may cause harm"]
            ELSE none
       [] OTHER ->
            IF Includes(actionLower, "not_" \o principle)
            THEN [amount |-> <<1, 2>>, explanation |-> "conflicts with " \o constraint.title]
            ELSE none

\* calculateViolationPenalty.
CalculateViolationPenalty(violationAmount, constraint) ==
  LET excess == RMax(<<0, 1>>, RSub(violationAmount, constraint.threshold))
  IN RMul(constraint.weight, RMul(excess, excess))

\* A variant of Exceeds that also holds at equality.
ExceedsOrReaches(violationAmount, threshold) == RLe(threshold, violationAmount)

\* violationAmount > constraint.threshold
Exceeds(violationAmount, threshold) == RLt(threshold, violationAmount)

Null == [null |-> TRUE]

\* checkConstraintViolation.
CheckConstraintViolation(action, belief, constraint, context) ==
  LET rule == PrincipleRule(action, belief, constraint)
  IN IF Exceeds(rule.amount, constraint.threshold)
     THEN [constraint_id    |-> constraint.id,
           violation_amount |-> rule.amount,
           penalty          |-> CalculateViolationPenalty(rule.amount, constraint),
           explanation      |-> rule.explanation]
     ELSE Null

\* assessConstraintViolations.
RECURSIVE AssessConstraintViolations(_, _, _, _)
AssessConstraintViolations(action, belief, context, constraints) ==
  IF constraints = <<>> THEN <<>>
  ELSE LET violation == CheckConstraintViolation(action, belief, Head(constraints), context)
           rest      == AssessConstraintViolations(action, belief, context, Tail(constraints))
       IN IF violation = Null THEN rest ELSE <<violation>> \o rest

\* this.constraints.find(c => c.id === id)
FindConstraint(constraints, id) ==
  LET hits == {i \in 1..Len(constraints) : constraints[i].id = id}
  IN IF hits = {} THEN Undefined
     ELSE constraints[CHOOSE i \in hits : \A j \in hits : i <= j]

\* groupViolationsByPriority: the Map from a priority to the violations whose
\* constraint is found and has that priority, in the order of the violations.
GroupViolationsByPriority(violations, constraints) ==
  LET found(v) == FindConstraint(constraints, v.constraint_id) # Undefined
      priorityOf(v) == FindConstraint(constraints, v.constraint_id).priority
      priorities == {priorityOf(violations[i]) :
                       i \in {j \in 1..Len(violations) : found(violations[j])}}
      inTier(p) == LET keep(v) == found(v) /\ priorityOf(v) = p
                   IN SelectSeq(violations, keep)
  IN [p \in priorities |-> inTier(p)]

\* violationList.reduce((sum, v) => sum + v.penalty, 0)
RECURSIVE LevelPenalty(_)
LevelPenalty(violationList) ==
  IF violationList = <<>> THEN <<0, 1>>
  ELSE RAdd(Head(violationList).penalty, LevelPenalty(Tail(violationList)))

\* A variant of CascadeFactor that discounts the first tier too.
CascadeFactorByTier(lambda, priority) == RPow(lambda, priority)

\* Math.pow(lambda, priority - 1), for the integer priorities >= 1 of the model.
CascadeFactor(lambda, priority) == RPow(lambda, priority - 1)

RECURSIVE SumTiers(_, _, _)
SumTiers(groups, priorities, lambda) ==
  IF priorities = {} THEN <<0, 1>>
  ELSE LET priority == CHOOSE p \in priorities : TRUE
       IN RAdd(RMul(CascadeFactor(lambda, priority), LevelPenalty(groups[priority])),
               SumTiers(groups, priorities \ {priority}, lambda))

\* calculateCascadingPenalty.
CalculateCascadingPenalty(violations, constraints, lambda) ==
  IF Len(violations) = 0 THEN <<0, 1>>
  ELSE LET violationsByPriority == GroupViolationsByPriority(violations, constraints)
       IN SumTiers(violationsByPriority, DOMAIN violationsByPriority, lambda)

RECURSIVE Pow10(_)
Pow10(k) == IF k = 0 THEN 1 ELSE 10 * Pow10(k - 1)

\* Number.prototype.toFixed(digits), as the integer number of 10^-digits units,
\* rounding halves away from zero.
ToFixed(x, digits) ==
  LET units == (2 * Abs(x[1]) * Pow10(digits) + x[2]) \div (2 * x[2])
  IN IF x[1] < 0 THEN -units ELSE units

\* The lines buildJustificationChain writes for the violations.
RECURSIVE ViolationLines(_, _)
ViolationLines(violations, constraints) ==
  IF violations = <<>> THEN <<>>
  ELSE LET v == Head(violations)
           constraint == FindConstraint(constraints, v.constraint_id)
           rest == ViolationLines(Tail(violations), constraints)
       IN IF constraint # Undefined
          THEN << [line |-> "violation", title |-> constraint.title,
                   priority |-> constraint.priority,
                   violation |-> ToFixed(v.violation_amount, 3),
                   penalty |-> ToFixed(v.penalty, 4)],
                  [line |-> "Reason", text |-> v.explanation] >> \o rest
          ELSE rest

\* buildJustificationChain: each line as a record of what the line prints.
BuildJustificationChain(action, belief, eu_base, violations, totalPenalty, eeu_total, constraints) ==
  << [line |-> "Action", text |-> action],
     [line |-> "Base Expected Utility", value |-> ToFixed(eu_base, 4)],
     [line |-> "Confidence", value |-> ToFixed(belief.kappa, 3)],
     [line |-> "Credence outcomes", value |-> Cardinality(DOMAIN belief.pi)] >>
  \o (IF Len(violations) = 0
      THEN << [line |-> "No constraint violations detected"] >>
      ELSE << [line |-> "Constraint Violations", value |-> Len(violations)] >>
           \o ViolationLines(violations, constraints)
           \o << [line |-> "Total Cascading Penalty", value |-> ToFixed(totalPenalty, 4)] >>)
  \o << [line |-> "Final EEU", value |-> ToFixed(eeu_total, 4)],
        [line |-> "Justification", chain |-> IF "chain" \in DOMAIN belief.J
                                             THEN belief.J.chain ELSE <<>>] >>

\* calculateEUBreakdown.
CalculateEUBreakdown(params, constraints, action, belief, context) ==
  LET eu_base      == CalculateBaseEU(params, action, belief, context)
      violations   == AssessConstraintViolations(action, belief, context, constraints)
      totalPenalty == CalculateCascadingPenalty(violations, constraints, params.lambda)
      eeu_total    == RSub(eu_base, totalPenalty)
  IN [action_id   |-> action,
      eu_base     |-> eu_base,
      constraints |-> violations,
      eeu_total   |-> eeu_total,
      justification_chain |->
        BuildJustificationChain(action, belief, eu_base, violations, totalPenalty,
                                eeu_total, constraints)]

\* The loop of decide: one breakdown per action that has a belief.
RECURSIVE Breakdowns(_, _, _, _, _)
Breakdowns(params, constraints, actions, beliefs, context) ==
  IF actions = <<>> THEN <<>>
  ELSE LET action == Head(actions)
           belief == MapGet(beliefs, action)
           rest   == Breakdowns(params, constraints, Tail(actions), beliefs, context)
       IN IF belief = Undefined
          THEN rest
          ELSE <<CalculateEUBreakdown(params, constraints, action, belief, context)>> \o rest

\* A variant of InsertByEeu that puts b before the breakdowns it ties with.
InsertBeforeTies(sorted, b) ==
  LET ahead == {i \in 1..Len(sorted) : \A j \in 1..i : RLt(b.eeu_total, sorted[j].eeu_total)}
      k == Cardinality(ahead)
  IN SubSeq(sorted, 1, k) \o <<b>> \o SubSeq(sorted, k + 1, Len(sorted))

\* One step of the stable sort with comparator (a, b) => b.eeu_total - a.eeu_total:
\* b goes after every breakdown whose eeu_total is greater or equal.
InsertByEeu(sorted, b) ==
  LET ahead == {i \in 1..Len(sorted) : \A j \in 1..i : RLe(b.eeu_total, sorted[j].eeu_total)}
      k == Cardinality(ahead)
  IN SubSeq(sorted, 1, k) \o <<b>> \o SubSeq(sorted, k + 1, Len(sorted))

\* breakdowns.sort((a, b) => b.eeu_total - a.eeu_total)
RECURSIVE SortByEeu(_)
SortByEeu(breakdowns) ==
  IF breakdowns = <<>> THEN <<>>
  ELSE InsertByEeu(SortByEeu(SubSeq(breakdowns, 1, Len(breakdowns) - 1)),
                   breakdowns[Len(breakdowns)])

\* decide.
Decide(params, constraints, actions, beliefs, context) ==
  SortByEeu(Breakdowns(params, constraints, actions, beliefs, context))

EEUCCDecide ==
  /\ \E actions \in ActionLists, context \in Contexts :
       eeRet' = [op |-> "decide",
                 arg |-> [actions |-> actions, beliefs |-> ActionBeliefs,
                          context |-> context],
                 val |-> Decide(eeParams, eeConstraints, actions, ActionBeliefs, context)]
  /\ UNCHANGED <<eeParams, eeConstraints>>
  /\ EEUCCFrame

\* getConstraints: a copy of the list.
EEUCCGetConstraints ==
  /\ eeRet' = [op |-> "getConstraints", arg |-> <<>>, val |-> eeConstraints]
  /\ UNCHANGED <<eeParams, eeConstraints>>
  /\ EEUCCFrame

\* addConstraint, for a constraint whose id is not in use.
EEUCCAddConstraint ==
  /\ \E constraint \in ConstraintPool :
       /\ constraint.id \notin ConstraintIds(eeConstraints)
       /\ eeConstraints' = SortCopyByPriority(Append(eeConstraints, constraint)).sorted
       /\ eeRet' = [op |-> "addConstraint", arg |-> constraint, val |-> Undefined]
  /\ UNCHANGED eeParams
  /\ EEUCCFrame

\* removeConstraint.
EEUCCRemoveConstraint ==
  /\ \E constraintId \in ConstraintIds(eeConstraints) \cup {"c0"} :
       LET keep(c) == c.id # constraintId
       IN /\ eeConstraints' = SelectSeq(eeConstraints, keep)
          /\ eeRet' = [op |-> "removeConstraint", arg |-> constraintId, val |-> Undefined]
  /\ UNCHANGED eeParams
  /\ EEUCCFrame

\* The lists a caller passes: up to two constraints with ids of their own.
ConstraintLists ==
  {q \in SeqsUpTo(ConstraintPool, 2) : Cardinality(ConstraintIds(q)) = Len(q)}

\* updateConstraints; `after` is the caller's list as the call leaves it.
EEUCCUpdateConstraints ==
  /\ \E newConstraints \in ConstraintLists :
       /\ eeConstraints' = SortCopyByPriority(newConstraints).sorted
       /\ eeRet' = [op |-> "updateConstraints", arg |-> newConstraints, val |-> Undefined,
                    after |-> SortCopyByPriority(newConstraints).argument]
  /\ UNCHANGED eeParams
  /\ EEUCCFrame

\* new EEUCC(params, constraints) with a lambda in (0,1).
EEUCCInit ==
  /\ \E params \in {[lambda |-> <<3, 5>>, base_utility_fn |-> "none"],
                     [lambda |-> <<1, 2>>, base_utility_fn |-> "caller"]},
        constraints \in ConstraintLists :
       EEUCCFreshWith(params, constraints)
  /\ LogFresh
  /\ GaugeFresh
  /\ BeliefManagerFresh
  /\ JWMCFresh

EEUCCNext ==
  \/ EEUCCDecide
  \/ EEUCCGetConstraints
  \/ EEUCCAddConstraint
  \/ EEUCCRemoveConstraint
  \/ EEUCCUpdateConstraints

DecideSpec == EEUCCInit /\ [][EEUCCNext]_vars

(***************************************************************************)
(* Properties of EEUCC.                                                    *)
(***************************************************************************)

\* C5: decide returns exactly one breakdown for each entry of the action list
\* that has a belief and none for the others; the result is ordered by eeu_total
\* non-increasing, and breakdowns with equal eeu_total keep their input order.
C5_DecideRanksEveryBelievedAction ==
  eeRet.op = "decide" =>
    LET actions == eeRet.arg.actions
        beliefs == eeRet.arg.beliefs
        kept    == {i \in 1..Len(actions) : actions[i] \in DOMAIN beliefs}
        result  == eeRet.val
        n       == Len(result)
    IN /\ n = Cardinality(kept)
       /\ \E from \in [1..n -> kept] :
            /\ \A i, j \in 1..n : i # j => from[i] # from[j]
            /\ \A i \in 1..n : result[i].action_id = actions[from[i]]
            /\ \A i, j \in 1..n :
                 i < j => /\ RLe(result[j].eeu_total, result[i].eeu_total)
                          /\ result[i].eeu_total = result[j].eeu_total => from[i] < from[j]

\* Two different actions with equal eeu_total were ranked, the first one given
\* first in the result.
C5_Witness ==
  /\ eeRet.op = "decide"
  /\ Len(eeRet.arg.actions) = 2
  /\ Len(eeRet.val) = 2
  /\ eeRet.arg.actions[1] # eeRet.arg.actions[2]
  /\ eeRet.val[1].eeu_total = eeRet.val[2].eeu_total
  /\ eeRet.val[1].action_id = eeRet.arg.actions[1]
  /\ eeConstraints # <<>>

\* C6: a breakdown holds a violation for a constraint exactly when the amount
\* the principle's rule assigns is strictly greater than the constraint's
\* threshold (equality means absent), and each recorded violation's penalty is
\* weight x (violation_amount - threshold)^2.
C6_ViolationIffAboveThreshold ==
  eeRet.op = "decide" =>
    \A k \in 1..Len(eeRet.val) :
      LET b == eeRet.val[k]
          belief == eeRet.arg.beliefs[b.action_id]
          amount(c) == PrincipleRule(b.action_id, belief, c).amount
          recorded(c) == \E v \in 1..Len(b.constraints) : b.constraints[v].constraint_id = c.id
      IN /\ \A i \in 1..Len(eeConstraints) :
              recorded(eeConstraints[i]) <=>
                eeConstraints[i].threshold[1] * amount(eeConstraints[i])[2]
                  < amount(eeConstraints[i])[1] * eeConstraints[i].threshold[2]
         /\ \A v \in 1..Len(b.constraints) :
              \E i \in 1..Len(eeConstraints) :
                LET c == eeConstraints[i]
                    excess == RSub(amount(c), c.threshold)
                IN /\ b.constraints[v].constraint_id = c.id
                   /\ b.constraints[v].violation_amount = amount(c)
                   /\ b.constraints[v].penalty = RMul(c.weight, RMul(excess, excess))
         /\ \A v, w \in 1..Len(b.constraints) :
              b.constraints[v].constraint_id = b.constraints[w].constraint_id => v = w

\* A breakdown with a recorded violation, for an action whose amount under
\* another constraint is positive and equal to that constraint's threshold.
C6_Witness ==
  /\ eeRet.op = "decide"
  /\ \E k \in 1..Len(eeRet.val) :
       LET b == eeRet.val[k]
           belief == eeRet.arg.beliefs[b.action_id]
       IN /\ Len(b.constraints) >= 1
          /\ \E i \in 1..Len(eeConstraints) :
               /\ PrincipleRule(b.action_id, belief, eeConstraints[i]).amount
                    = eeConstraints[i].threshold
               /\ eeConstraints[i].threshold # <<0, 1>>
               /\ \A v \in 1..Len(b.constraints) :
                    b.constraints[v].constraint_id # eeConstraints[i].id

\* C7: eeu_total = eu_base - SUM over priority tiers p of lambda^(p-1) x (sum
\* of the penalties of the recorded violations whose constraint has priority
\* p), not clamped; the priority-1 constraint {preserve_life, threshold 0.1,
\* weight 0.9} and action 'deny_treatment' contribute exactly 0.441.
C7_CascadedTotal ==
  eeRet.op = "decide" =>
    \A k \in 1..Len(eeRet.val) :
      LET b == eeRet.val[k]
          lambda == eeParams.lambda
          priorityOf(v) ==
            (CHOOSE c \in {eeConstraints[i] : i \in 1..Len(eeConstraints)} :
               c.id = v.constraint_id).priority
          tier(p) == LET inTier(v) == priorityOf(v) = p
                     IN LevelPenalty(SelectSeq(b.constraints, inTier))
          total == RAdd(tier(1), RAdd(RMul(lambda, tier(2)),
                                      RMul(RMul(lambda, lambda), tier(3))))
      IN /\ \A i \in 1..Len(eeConstraints) : eeConstraints[i].priority \in 1..3
         /\ b.eeu_total = RSub(b.eu_base, total)
         /\ \A v \in 1..Len(b.constraints) :
              (b.action_id = "deny_treatment" /\ b.constraints[v].constraint_id = "c1")
                => /\ b.constraints[v].penalty = <<441, 1000>>
                   /\ (Len(b.constraints) = 1 => RSub(b.eu_base, b.eeu_total) = <<441, 1000>>)

\* 'deny_treatment' under the priority-1 preserve_life constraint and a violated
\* constraint of a lower tier, with a negative total.
C7_Witness ==
  /\ eeRet.op = "decide"
  /\ \E k \in 1..Len(eeRet.val) :
       LET b == eeRet.val[k]
       IN /\ b.action_id = "deny_treatment"
          /\ b.eeu_total[1] < 0
          /\ \E v, w \in 1..Len(b.constraints) :
               /\ b.constraints[v].constraint_id = "c1"
               /\ b.constraints[w].constraint_id = "c3"

\* C15: the list handed to the constructor or to updateConstraints is, after
\* the call, the list the caller passed, in the caller's order; and the
\* engine's list, which getConstraints returns and decide reads, is in
\* ascending priority order in every state reached through the constructor,
\* updateConstraints, addConstraint and removeConstraint.
C15_ConstraintsSortedCallerListKept ==
  /\ \A i \in 1..Len(eeConstraints) : \A j \in 1..Len(eeConstraints) :
       i < j => eeConstraints[i].priority <= eeConstraints[j].priority
  /\ eeRet.op \in {"new", "updateConstraints"} => eeRet.after = eeRet.arg
  /\ eeRet.op = "getConstraints" => eeRet.val = eeConstraints

\* An unsorted list handed to updateConstraints, a constraint of the highest
\* priority added afterwards and the list read back.
C15_Witness ==
  /\ eeRet.op = "getConstraints"
  /\ Len(eeRet.val) = 3
  /\ eeRet.val[1].priority = 1
  /\ eeRet.val[3].priority = 3
  /\ eeRet.val[1].id = "c5"

\* The keyword classes of the default utility rule.
NamesFailure(outcome) ==
  \E k \in {"fail", "ineffective", "error", "false_positive"} :
    Includes(ToLowerCase(outcome), k)
NamesSuccess(outcome) ==
  \E k \in {"success", "effective", "saves", "accurate"} :
    Includes(ToLowerCase(outcome), k)
NamesPartial(outcome) == Includes(ToLowerCase(outcome), "partial")

\* Sum of pi(outcome) x utility(outcome) over the outcomes.
RECURSIVE ExpectedUtility(_, _, _)
ExpectedUtility(pi, outcomes, utility) ==
  IF outcomes = {} THEN <<0, 1>>
  ELSE LET outcome == CHOOSE o \in outcomes : TRUE
       IN RAdd(RMul(pi[outcome], utility[outcome]),
               ExpectedUtility(pi, outcomes \ {outcome}, utility))

\* The rule with a failure keyword deciding first: 'ineffective' counts 0.
FailureFirstUtility(outcome) ==
  IF NamesFailure(outcome) THEN <<0, 1>>
  ELSE IF NamesSuccess(outcome) THEN <<1, 1>> ELSE <<1, 2>>

\* The rule with a success keyword deciding first: 'ineffective', which
\* contains 'effective', counts 1.
SuccessFirstUtility(outcome) ==
  IF NamesSuccess(outcome) THEN <<1, 1>>
  ELSE IF NamesFailure(outcome) THEN <<0, 1>> ELSE <<1, 2>>

\* C23: under the default utility rule an outcome named with a failure
\* keyword (fail, ineffective, error, false_positive) counts 0, one named
\* with a success keyword (success, effective, saves, accurate) counts 1 and
\* one named partial counts 0.5; the outcome 'ineffective' counts 0, so that
\* eu_base = kappa x sum of pi(outcome) x that utility.
C23_DefaultUtilityByKeyword ==
  (eeRet.op = "decide" /\ eeParams.base_utility_fn = "none") =>
    \A i \in 1..Len(eeRet.val) :
      LET belief == eeRet.arg.beliefs[eeRet.val[i].action_id]
          outcomes == DOMAIN belief.pi
      IN (\A o \in outcomes : NamesFailure(o) \/ NamesSuccess(o) \/ NamesPartial(o))
         => eeRet.val[i].eu_base
              = RMul(ExpectedUtility(belief.pi, outcomes,
                                     [o \in outcomes |-> FailureFirstUtility(o)]),
                     belief.kappa)

\* The same with the success keywords deciding first, as the code tests them.
DefaultUtilitySuccessFirst ==
  (eeRet.op = "decide" /\ eeParams.base_utility_fn = "none") =>
    \A i \in 1..Len(eeRet.val) :
      LET belief == eeRet.arg.beliefs[eeRet.val[i].action_id]
          outcomes == DOMAIN belief.pi
      IN (\A o \in outcomes : NamesFailure(o) \/ NamesSuccess(o) \/ NamesPartial(o))
         => eeRet.val[i].eu_base
              = RMul(ExpectedUtility(belief.pi, outcomes,
                                     [o \in outcomes |-> SuccessFirstUtility(o)]),
                     belief.kappa)

(***************************************************************************)
(* BeliefManager (src/src/core/belief/BeliefManager.ts).  Credences and    *)
(* confidences are exact rationals; the probabilities used are binary      *)
(* fractions, so that the sums and the comparison with the tolerance are   *)
(* the ones the floating-point code computes.                              *)
(***************************************************************************)

BeliefFrame == UNCHANGED <<logVars, gaugeVars, eeVars, jwVars>>

\* Map.prototype.has / get / set / delete on the entries of a Map.
EntriesHas(entries, key) == \E i \in 1..Len(entries) : entries[i].key = key

EntriesGet(entries, key) ==
  IF EntriesHas(entries, key)
  THEN entries[CHOOSE i \in 1..Len(entries) : entries[i].key = key].value
  ELSE Undefined

EntriesSet(entries, key, value) ==
  IF EntriesHas(entries, key)
  THEN [i \in 1..Len(entries) |->
          IF entries[i].key = key THEN [key |-> key, value |-> value] ELSE entries[i]]
  ELSE Append(entries, [key |-> key, value |-> value])

EntriesDelete(entries, key) ==
  LET keep(e) == e.key # key IN SelectSeq(entries, keep)

\* Array.from(map.values())
EntriesValues(entries) == [i \in 1..Len(entries) |-> entries[i].value]

\* The same for a Map whose order is never observed.
ChainsSet(chains, key, chain) ==
  [k \in DOMAIN chains \cup {key} |-> IF k = key THEN chain ELSE chains[k]]

ChainsDelete(chains, key) == [k \in DOMAIN chains \ {key} |-> chains[k]]

\* Object.values(pi).reduce((acc, val) => acc + val, 0)
RECURSIVE SumCredence(_, _)
SumCredence(pi, outcomes) ==
  IF outcomes = {} THEN <<0, 1>>
  ELSE LET outcome == CHOOSE o \in outcomes : TRUE
       IN RAdd(pi[outcome], SumCredence(pi, outcomes \ {outcome}))

Thrown(message) == [error |-> message]

IsThrown(result) == DOMAIN result = {"error"}

NoError == [ok |-> TRUE]

CredenceTolerance == <<1, 100>>

\* A variant of SumOutsideTolerance with a tolerance of 0.1.
SumOutsideWideTolerance(sum) ==
  LET diff == RSub(sum, <<1, 1>>)
  IN RLt(<<1, 10>>, <<Abs(diff[1]), diff[2]>>)

\* Math.abs(sum - 1.0) > 0.01
SumOutsideTolerance(sum) ==
  LET diff == RSub(sum, <<1, 1>>)
  IN RLt(CredenceTolerance, <<Abs(diff[1]), diff[2]>>)

\* validateCredence: the error it throws, or NoError.
ValidateCredence(pi) ==
  IF Cardinality(DOMAIN pi) < 2
  THEN Thrown("Credence must have at least 2 outcomes")
  ELSE IF SumOutsideTolerance(SumCredence(pi, DOMAIN pi))
  THEN Thrown("Credence must sum to 1.0")
  ELSE IF \E outcome \in DOMAIN pi : RLt(pi[outcome], <<0, 1>>) \/ RLt(<<1, 1>>, pi[outcome])
  THEN Thrown("Probability must be in [0,1]")
  ELSE NoError

\* kappa < 0 || kappa > 1
ValidateConfidence(kappa) ==
  IF RLt(kappa, <<0, 1>>) \/ RLt(<<1, 1>>, kappa)
  THEN Thrown("Confidence must be in [0,1]")
  ELSE NoError

\* validateJustification.
ValidateJustification(J) ==
  IF Len(J.facts) + Len(J.rules) + Len(J.moral_principles) = 0
  THEN Thrown("Justification J must have at least one component")
  ELSE NoError

\* The bullet lines of a chain (the bullet character written as *).
Bullets(items) == [i \in 1..Len(items) |-> "  * " \o items[i]]

\* buildJustificationChain of BeliefManager.
BuildChain(J) ==
  (IF J.context # "" THEN <<"Context: " \o J.context>> ELSE <<>>)
  \o (IF Len(J.facts) > 0 THEN <<"Facts:">> \o Bullets(J.facts) ELSE <<>>)
  \o (IF Len(J.rules) > 0 THEN <<"Rules:">> \o Bullets(J.rules) ELSE <<>>)
  \o (IF Len(J.moral_principles) > 0
      THEN <<"Moral Principles:">> \o Bullets(J.moral_principles) ELSE <<>>)

\* deepCopyJustification.  A chain property whose value is undefined is an
\* absent field: the code reads J.chain only for its truthiness.
DeepCopyJustification(J) ==
  LET copy == [facts |-> J.facts, rules |-> J.rules,
               moral_principles |-> J.moral_principles, context |-> J.context]
  IN IF "chain" \in DOMAIN J THEN Spread(copy, [chain |-> J.chain]) ELSE copy

\* Date.now() as read by the store.
Times == {1, 2}

PiHalf == [yes |-> <<1, 2>>, no |-> <<1, 2>>]
PiNear == [yes |-> <<1, 2>>, no |-> <<127, 256>>]
PiEdge == [yes |-> <<1, 1>>, no |-> <<0, 1>>]
PiSingle == [yes |-> <<1, 1>>]
PiOutOfRange == [yes |-> <<3, 2>>, no |-> <<-1, 2>>]
PiLow == [yes |-> <<1, 2>>, no |-> <<125, 256>>]
PiHigh == [yes |-> <<1, 2>>, no |-> <<131, 256>>]

EmptyJustification ==
  [facts |-> <<>>, rules |-> <<>>, moral_principles |-> <<>>, context |-> "icu"]

CreateArgsOf(proposition, pi, kappa, J) ==
  [proposition |-> proposition, pi |-> pi, kappa |-> kappa, J |-> J]

\* Arguments of createBelief: three that pass validation and nine that fail it
\* in one or several ways.  source is an optional argument.
CreateArgs ==
  {CreateArgsOf("p1", PiHalf, <<1, 2>>, FullJustification),
   Spread(CreateArgsOf("p1", PiNear, <<1, 1>>, SparseJustification), [source |-> "external"]),
   CreateArgsOf("p2", PiEdge, <<0, 1>>, FullJustification),
   CreateArgsOf("p1", PiSingle, <<1, 2>>, FullJustification),
   CreateArgsOf("p1", PiOutOfRange, <<1, 2>>, FullJustification),
   CreateArgsOf("p1", PiLow, <<1, 2>>, FullJustification),
   CreateArgsOf("p2", PiHigh, <<1, 2>>, FullJustification),
   CreateArgsOf("p1", PiHalf, <<3, 2>>, FullJustification),
   CreateArgsOf("p2", PiHalf, <<-1, 2>>, FullJustification),
   CreateArgsOf("p1", PiHalf, <<1, 2>>, EmptyJustification),
   CreateArgsOf("p2", PiSingle, <<3, 2>>, EmptyJustification),
   CreateArgsOf("p1", <<>>, <<1, 2>>, SparseJustification)}

\* createBelief up to the point where it stores: the error thrown, or the
\* belief and the chain to store.
CreateBelief(args, now) ==
  LET source == IF "source" \in DOMAIN args THEN args.source ELSE "initial"
      chain  == BuildChain(args.J)
  IN IF IsThrown(ValidateCredence(args.pi)) THEN ValidateCredence(args.pi)
     ELSE IF IsThrown(ValidateConfidence(args.kappa)) THEN ValidateConfidence(args.kappa)
     ELSE IF IsThrown(ValidateJustification(args.J)) THEN ValidateJustification(args.J)
     ELSE [belief |-> [proposition |-> args.proposition,
                       pi          |-> args.pi,
                       kappa       |-> args.kappa,
                       J           |-> Spread(DeepCopyJustification(args.J),
                                              [chain |-> chain]),
                       timestamp   |-> now,
                       source      |-> source],
           chain |-> chain]

\* this.beliefs.set(proposition, belief)
StoreBelief(entries, key, belief) == EntriesSet(entries, key, belief)

BMCreateBelief ==
  /\ \E args \in CreateArgs, now \in Times :
       LET made == CreateBelief(args, now)
       IN IF IsThrown(made)
          THEN /\ bmRet' = [op |-> "createBelief", arg |-> args, val |-> made]
               /\ UNCHANGED <<bmBeliefs, bmChains>>
          ELSE /\ bmChains' = ChainsSet(bmChains, args.proposition, made.chain)
               /\ bmBeliefs' = StoreBelief(bmBeliefs, args.proposition, made.belief)
               /\ bmRet' = [op |-> "createBelief", arg |-> args, val |-> made.belief]
  /\ BeliefFrame

Propositions == {"p1", "p2"}

BMGetBelief ==
  /\ \E proposition \in Propositions :
       bmRet' = [op |-> "getBelief", arg |-> proposition,
                 val |-> EntriesGet(bmBeliefs, proposition)]
  /\ UNCHANGED <<bmBeliefs, bmChains>>
  /\ BeliefFrame

\* getAllBeliefs: a new array of the values of the map.
BMGetAllBeliefs ==
  /\ bmRet' = [op |-> "getAllBeliefs", arg |-> <<>>, val |-> EntriesValues(bmBeliefs)]
  /\ UNCHANGED <<bmBeliefs, bmChains>>
  /\ BeliefFrame

\* Arguments of updateBelief: a proposition and a Partial<Belief>.
UpdateArgs ==
  {[proposition |-> "p1", updates |-> [kappa |-> <<1, 4>>]],
   [proposition |-> "p1", updates |-> [pi |-> PiEdge, J |-> SparseJustification]],
   [proposition |-> "p1", updates |-> [source |-> "external"]],
   [proposition |-> "p2", updates |-> [kappa |-> <<1, 1>>, source |-> "initial"]],
   [proposition |-> "p1", updates |-> [proposition |-> "p2"]],
   [proposition |-> "p1", updates |-> [pi |-> PiSingle]],
   [proposition |-> "p1", updates |-> [pi |-> PiLow, kappa |-> <<1, 4>>]],
   [proposition |-> "p1", updates |-> [kappa |-> <<3, 2>>]],
   [proposition |-> "p2", updates |-> [pi |-> PiHalf, kappa |-> <<-1, 2>>]],
   [proposition |-> "p1", updates |-> [J |-> EmptyJustification, kappa |-> <<1, 4>>]]}

\* A variant of Revised in which the timestamp and source of the updates win.
RevisedUnlessGiven(existing, updates, now) ==
  Spread(Spread(existing, [timestamp |-> now, source |-> "revised"]), updates)

\* { ...existing, ...updates, timestamp: Date.now(), source: 'revised' }
Revised(existing, updates, now) ==
  Spread(Spread(existing, updates), [timestamp |-> now, source |-> "revised"])

\* updateBelief up to the point where it stores: the error thrown, or the
\* belief to store and, when the updates carry a justification, its chain.
UpdateBelief(entries, proposition, updates, now) ==
  LET existing == EntriesGet(entries, proposition)
      updated  == Revised(existing, updates, now)
  IN IF ~EntriesHas(entries, proposition)
     THEN Thrown("Belief does not exist")
     ELSE IF "pi" \in DOMAIN updates /\ IsThrown(ValidateCredence(updated.pi))
     THEN ValidateCredence(updated.pi)
     ELSE IF "kappa" \in DOMAIN updates /\ IsThrown(ValidateConfidence(updated.kappa))
     THEN ValidateConfidence(updated.kappa)
     ELSE IF "J" \in DOMAIN updates /\ IsThrown(ValidateJustification(updated.J))
     THEN ValidateJustification(updated.J)
     ELSE IF "J" \in DOMAIN updates
     THEN [belief |-> Spread(updated, [J |-> Spread(updated.J,
                                                    [chain |-> BuildChain(updated.J)])]),
           chain |-> BuildChain(updated.J)]
     ELSE [belief |-> updated]

BMUpdateBelief ==
  /\ \E args \in UpdateArgs, now \in Times :
       LET made == UpdateBelief(bmBeliefs, args.proposition, args.updates, now)
       IN IF IsThrown(made)
          THEN /\ bmRet' = [op |-> "updateBelief", arg |-> args, val |-> made]
               /\ UNCHANGED <<bmBeliefs, bmChains>>
          ELSE /\ bmChains' = IF "chain" \in DOMAIN made
                              THEN ChainsSet(bmChains, args.proposition, made.chain)
                              ELSE bmChains
               /\ bmBeliefs' = StoreBelief(bmBeliefs, args.proposition, made.belief)
               /\ bmRet' = [op |-> "updateBelief", arg |-> args, val |-> made.belief]
  /\ BeliefFrame

BMRemoveBelief ==
  /\ \E proposition \in Propositions :
       /\ bmChains' = ChainsDelete(bmChains, proposition)
       /\ bmBeliefs' = EntriesDelete(bmBeliefs, proposition)
       /\ bmRet' = [op |-> "removeBelief", arg |-> proposition,
                    val |-> EntriesHas(bmBeliefs, proposition)]
  /\ BeliefFrame

BMGetJustificationChain ==
  /\ \E proposition \in Propositions :
       bmRet' = [op |-> "getJustificationChain", arg |-> proposition,
                 val |-> IF proposition \in DOMAIN bmChains
                         THEN bmChains[proposition] ELSE <<>>]
  /\ UNCHANGED <<bmBeliefs, bmChains>>
  /\ BeliefFrame

BMClear ==
  /\ bmBeliefs' = <<>>
  /\ bmChains' = <<>>
  /\ bmRet' = [op |-> "clear", arg |-> <<>>, val |-> Undefined]
  /\ BeliefFrame

BMSize ==
  /\ bmRet' = [op |-> "size", arg |-> <<>>, val |-> Len(bmBeliefs)]
  /\ UNCHANGED <<bmBeliefs, bmChains>>
  /\ BeliefFrame

BMHas ==
  /\ \E proposition \in Propositions :
       bmRet' = [op |-> "has", arg |-> proposition,
                 val |-> EntriesHas(bmBeliefs, proposition)]
  /\ UNCHANGED <<bmBeliefs, bmChains>>
  /\ BeliefFrame

\* The copy exportBeliefs and importBeliefs make of a belief.
CopyBelief(b) == Spread(b, [pi |-> b.pi, J |-> DeepCopyJustification(b.J)])

BMExportBeliefs ==
  /\ bmRet' = [op |-> "exportBeliefs", arg |-> <<>>,
               val |-> [i \in 1..Len(bmBeliefs) |-> CopyBelief(bmBeliefs[i].value)]]
  /\ UNCHANGED <<bmBeliefs, bmChains>>
  /\ BeliefFrame

\* Whether the Belief objects in the list a call returned, or was handed, are
\* the objects the store holds.  Array.from(this.beliefs.values()) is a new
\* array of the stored objects themselves; exportBeliefs builds a new object
\* with a new pi and a new J for each, and importBeliefs stores such new
\* objects and a new chain array.
HoldsStoredObjects(op) == op = "getAllBeliefs"

\* Assignments a caller makes to fields of a Belief object it holds.
CallerWrites ==
  {[source |-> "revised"], [kappa |-> <<1, 4>>, source |-> "revised"]}

\* The caller assigns to fields of element i of the list that the last call
\* returned (getAllBeliefs, exportBeliefs) or was handed (importBeliefs).  The
\* assignment reaches the store when that element is a stored object: element
\* i of getAllBeliefs' array is the value of entry i of the map.
BMCallerWrites ==
  /\ bmRet.op \in {"getAllBeliefs", "exportBeliefs", "importBeliefs"}
  /\ LET list == IF bmRet.op = "importBeliefs" THEN bmRet.arg ELSE bmRet.val
     IN \E i \in 1..Len(list), write \in CallerWrites :
          /\ bmBeliefs' = IF HoldsStoredObjects(bmRet.op)
                          THEN [bmBeliefs EXCEPT ![i].value = Spread(@, write)]
                          ELSE bmBeliefs
          /\ bmRet' = [op |-> "write",
                       arg |-> [to |-> bmRet.op, index |-> i, write |-> write],
                       val |-> Spread(list[i], write)]
  /\ UNCHANGED bmChains
  /\ BeliefFrame

\* Lists handed to importBeliefs: nothing there is validated.
ImportLists ==
  {<<BeliefOf("p2", PiSingle, <<3, 2>>, SparseJustification)>>,
   <<BeliefOf("p1", PiHalf, <<1, 2>>,
              Spread(FullJustification, [chain |-> <<"Context: ward">>]))>>}

\* The forEach of importBeliefs.
RECURSIVE ImportInto(_, _)
ImportInto(store, list) ==
  IF list = <<>> THEN store
  ELSE LET b == Head(list)
           hasChain == "chain" \in DOMAIN b.J
       IN ImportInto(
            [entries |-> EntriesSet(store.entries, b.proposition, CopyBelief(b)),
             chains  |-> IF hasChain THEN ChainsSet(store.chains, b.proposition, b.J.chain)
                         ELSE store.chains],
            Tail(list))

BMImportBeliefs ==
  /\ \E list \in ImportLists :
       LET store == ImportInto([entries |-> <<>>, chains |-> <<>>], list)
       IN /\ bmBeliefs' = store.entries
          /\ bmChains' = store.chains
          /\ bmRet' = [op |-> "importBeliefs", arg |-> list, val |-> Undefined]
  /\ BeliefFrame

\* importBeliefs(snapshot) for the snapshot exportBeliefs has just returned.
BMImportSnapshot ==
  /\ bmRet.op = "exportBeliefs"
  /\ LET store == ImportInto([entries |-> <<>>, chains |-> <<>>], bmRet.val)
     IN /\ bmBeliefs' = store.entries
        /\ bmChains' = store.chains
        /\ bmRet' = [op |-> "importBeliefs", arg |-> bmRet.val, val |-> Undefined]
  /\ BeliefFrame

BeliefInit == BeliefManagerFresh /\ LogFresh /\ GaugeFresh /\ EEUCCFresh /\ JWMCFresh

BeliefNext ==
  \/ BMCreateBelief
  \/ BMGetBelief
  \/ BMGetAllBeliefs
  \/ BMUpdateBelief
  \/ BMRemoveBelief
  \/ BMGetJustificationChain
  \/ BMClear
  \/ BMSize
  \/ BMHas
  \/ BMExportBeliefs
  \/ BMImportBeliefs

BeliefSpec == BeliefInit /\ [][BeliefNext]_vars

\* The store with the callers that keep the lists it returns and is handed.
SnapshotNext ==
  \/ BMCreateBelief
  \/ BMUpdateBelief
  \/ BMGetAllBeliefs
  \/ BMExportBeliefs
  \/ BMImportBeliefs
  \/ BMImportSnapshot
  \/ BMCallerWrites

SnapshotSpec == BeliefInit /\ [][SnapshotNext]_vars

(***************************************************************************)
(* Properties of BeliefManager.                                            *)
(***************************************************************************)

\* C8: createBelief raises an error and leaves the store as it was whenever the
\* credence has fewer than 2 outcomes, a probability is outside [0,1], the sum
\* differs from 1.0 by more than 0.01, the confidence is outside [0,1] or the
\* justification has no component; otherwise it stores the belief under the
\* proposition and returns it.
C8_CreateValidates ==
  [][bmRet'.op = "createBelief" =>
       LET args == bmRet'.arg
           pi == args.pi
           sum == SumCredence(pi, DOMAIN pi)
           invalid ==
             \/ Cardinality(DOMAIN pi) < 2
             \/ \E o \in DOMAIN pi : pi[o][1] < 0 \/ pi[o][1] > pi[o][2]
             \/ 100 * Abs(sum[1] - sum[2]) > sum[2]
             \/ args.kappa[1] < 0 \/ args.kappa[1] > args.kappa[2]
             \/ Len(args.J.facts) + Len(args.J.rules) + Len(args.J.moral_principles) = 0
           others(entries) == LET keep(e) == e.key # args.proposition
                              IN SelectSeq(entries, keep)
       IN IF invalid
          THEN /\ IsThrown(bmRet'.val)
               /\ bmBeliefs' = bmBeliefs
               /\ bmChains' = bmChains
          ELSE /\ ~IsThrown(bmRet'.val)
               /\ EntriesGet(bmBeliefs', args.proposition) = bmRet'.val
               /\ bmRet'.val.proposition = args.proposition
               /\ bmRet'.val.pi = pi
               /\ bmRet'.val.kappa = args.kappa
               /\ bmRet'.val.J.facts = args.J.facts
               /\ bmRet'.val.J.rules = args.J.rules
               /\ bmRet'.val.J.moral_principles = args.J.moral_principles
               /\ bmRet'.val.J.context = args.J.context
               /\ others(bmBeliefs') = others(bmBeliefs)]_vars

\* A createBelief rejected only for its sum, on a store that already holds a
\* belief for the proposition.
C8_Witness ==
  /\ bmRet.op = "createBelief"
  /\ IsThrown(bmRet.val)
  /\ bmRet.arg.pi = PiLow
  /\ EntriesHas(bmBeliefs, bmRet.arg.proposition)

\* C16: in every state of the store, each stored belief carries a J.chain, and
\* that chain and the chain getJustificationChain returns for the belief's key
\* are the chain buildJustificationChain derives from the belief's context,
\* facts, rules and moral_principles.
C16_ChainMatchesJustification ==
  \A i \in 1..Len(bmBeliefs) :
    LET key == bmBeliefs[i].key
        J == bmBeliefs[i].value.J
        returned == IF key \in DOMAIN bmChains THEN bmChains[key] ELSE <<>>
    IN /\ "chain" \in DOMAIN J
       /\ J.chain = BuildChain(J)
       /\ returned = BuildChain(J)

\* C17: an assignment to a field (credence, confidence, justification or
\* source) of a Belief object obtained from getAllBeliefs leaves the store,
\* and so what it returns for that proposition afterwards, as it was.
C17_AllReturnsCopies ==
  [][(bmRet'.op = "write" /\ bmRet'.arg.to = "getAllBeliefs")
     => bmBeliefs' = bmBeliefs /\ bmChains' = bmChains]_vars

\* The chain getJustificationChain returns.
ReturnedChain(chains, key) == IF key \in DOMAIN chains THEN chains[key] ELSE <<>>

\* The keys of a Map held as entries.
EntriesKeys(entries) == {entries[i].key : i \in 1..Len(entries)}

\* C18: importBeliefs of the snapshot exportBeliefs has just returned leaves
\* the store with the same propositions and, for each, the same credence,
\* confidence, justification and chain; and an assignment to a field of a
\* belief of the exported snapshot, or of the list handed to importBeliefs,
\* leaves the store as it was.
C18_SnapshotRoundTrip ==
  [][/\ (bmRet'.op = "importBeliefs" /\ bmRet.op = "exportBeliefs"
          /\ bmRet'.arg = bmRet.val)
        => /\ EntriesKeys(bmBeliefs') = EntriesKeys(bmBeliefs)
           /\ \A key \in EntriesKeys(bmBeliefs) :
                /\ EntriesGet(bmBeliefs', key).pi = EntriesGet(bmBeliefs, key).pi
                /\ EntriesGet(bmBeliefs', key).kappa = EntriesGet(bmBeliefs, key).kappa
                /\ EntriesGet(bmBeliefs', key).J = EntriesGet(bmBeliefs, key).J
                /\ ReturnedChain(bmChains', key) = ReturnedChain(bmChains, key)
     /\ (bmRet'.op = "write" /\ bmRet'.arg.to \in {"exportBeliefs", "importBeliefs"})
        => bmBeliefs' = bmBeliefs /\ bmChains' = bmChains]_vars

\* The same for the stores in which every belief is held under its own
\* proposition and the chain kept for it is the chain its justification
\* carries.
RoundTripOfStoreKeyedByProposition ==
  [][(/\ bmRet'.op = "importBeliefs" /\ bmRet.op = "exportBeliefs"
      /\ bmRet'.arg = bmRet.val
      /\ \A i \in 1..Len(bmBeliefs) :
           /\ bmBeliefs[i].key = bmBeliefs[i].value.proposition
           /\ ReturnedChain(bmChains, bmBeliefs[i].key)
                = (IF "chain" \in DOMAIN bmBeliefs[i].value.J
                   THEN bmBeliefs[i].value.J.chain ELSE <<>>))
     => /\ EntriesKeys(bmBeliefs') = EntriesKeys(bmBeliefs)
        /\ \A key \in EntriesKeys(bmBeliefs) :
             /\ EntriesGet(bmBeliefs', key).pi = EntriesGet(bmBeliefs, key).pi
             /\ EntriesGet(bmBeliefs', key).kappa = EntriesGet(bmBeliefs, key).kappa
             /\ EntriesGet(bmBeliefs', key).J = EntriesGet(bmBeliefs, key).J
             /\ ReturnedChain(bmChains', key) = ReturnedChain(bmChains, key)]_vars

\* An assignment to a field of a belief of the exported snapshot, or of the
\* list handed to importBeliefs, leaves the store as it was.
SnapshotWritesLeaveStore ==
  [][(bmRet'.op = "write" /\ bmRet'.arg.to \in {"exportBeliefs", "importBeliefs"})
     => bmBeliefs' = bmBeliefs /\ bmChains' = bmChains]_vars

\* C19: createBelief raises for every credence whose sum is outside
\* [0.9, 1.1]; for a sum inside it either raises or stores a normalized
\* credence; whenever it succeeds, the credence stored under the proposition
\* sums to 1.0.
C19_CreateStoresNormalizedCredence ==
  [][bmRet'.op = "createBelief" =>
       LET pi == bmRet'.arg.pi
           sum == SumCredence(pi, DOMAIN pi)
           inBand == RLe(<<9, 10>>, sum) /\ RLe(sum, <<11, 10>>)
           stored == EntriesGet(bmBeliefs', bmRet'.arg.proposition).pi
       IN /\ ~inBand => IsThrown(bmRet'.val)
          /\ ~IsThrown(bmRet'.val) => SumCredence(stored, DOMAIN stored) = <<1, 1>>]_vars

\* C9: updateBelief on an unknown proposition raises an error and changes
\* nothing; an update whose credence, confidence or justification fails
\* validation leaves the store unchanged; a successful update stores a belief
\* with source 'revised' whose proposition, credence, confidence and
\* justification, where absent from the partial, are the previous ones.
C9_UpdateValidates ==
  [][bmRet'.op = "updateBelief" =>
       LET p == bmRet'.arg.proposition
           u == bmRet'.arg.updates
           old == EntriesGet(bmBeliefs, p)
           sum == SumCredence(u.pi, DOMAIN u.pi)
           badPi == \/ Cardinality(DOMAIN u.pi) < 2
                    \/ \E o \in DOMAIN u.pi : u.pi[o][1] < 0 \/ u.pi[o][1] > u.pi[o][2]
                    \/ 100 * Abs(sum[1] - sum[2]) > sum[2]
           invalid ==
             \/ "pi" \in DOMAIN u /\ badPi
             \/ "kappa" \in DOMAIN u /\ (u.kappa[1] < 0 \/ u.kappa[1] > u.kappa[2])
             \/ "J" \in DOMAIN u
                  /\ Len(u.J.facts) + Len(u.J.rules) + Len(u.J.moral_principles) = 0
           others(entries) == LET keep(e) == e.key # p IN SelectSeq(entries, keep)
       IN IF ~EntriesHas(bmBeliefs, p) \/ invalid
          THEN /\ IsThrown(bmRet'.val)
               /\ bmBeliefs' = bmBeliefs
               /\ bmChains' = bmChains
          ELSE /\ ~IsThrown(bmRet'.val)
               /\ EntriesGet(bmBeliefs', p) = bmRet'.val
               /\ bmRet'.val.source = "revised"
               /\ \A field \in {"proposition", "pi", "kappa", "J"} \ DOMAIN u :
                    bmRet'.val[field] = old[field]
               /\ others(bmBeliefs') = others(bmBeliefs)]_vars

\* A successful update whose partial carries another source and no credence.
C9_Witness ==
  /\ bmRet.op = "updateBelief"
  /\ ~IsThrown(bmRet.val)
  /\ "source" \in DOMAIN bmRet.arg.updates
  /\ bmRet.arg.updates.source # "revised"
  /\ "pi" \notin DOMAIN bmRet.arg.updates
  /\ bmRet.val.source = "revised"
  /\ EntriesGet(bmBeliefs, bmRet.arg.proposition) = bmRet.val

(***************************************************************************)
(* JWMC (src/src/core/jwmc/JWMC.ts): belief revision.                      *)
(***************************************************************************)

JWMCFrame == UNCHANGED <<logVars, gaugeVars, eeVars, bmVars>>

\* new Set(array)
ToSet(items) == {items[i] : i \in 1..Len(items)}

\* Array.from(new Set(array)): the first occurrence of every item, in order.
RECURSIVE Dedupe(_)
Dedupe(items) ==
  IF items = <<>> THEN <<>>
  ELSE LET front == Dedupe(SubSeq(items, 1, Len(items) - 1))
           last  == items[Len(items)]
       IN IF last \in ToSet(front) THEN front ELSE Append(front, last)

\* BeliefManager.jaccardSimilarity.
JaccardSimilarity(J1, J2) ==
  LET set1 == ToSet(J1.facts) \cup ToSet(J1.rules) \cup ToSet(J1.moral_principles)
      set2 == ToSet(J2.facts) \cup ToSet(J2.rules) \cup ToSet(J2.moral_principles)
  IN IF Cardinality(set1 \cup set2) = 0 THEN <<0, 1>>
     ELSE R(Cardinality(set1 \cap set2), Cardinality(set1 \cup set2))

\* BeliefManager.hasCoreMoralPrinciple.
HasCoreMoralPrinciple(J, corePrinciples) ==
  \E i \in 1..Len(J.moral_principles) : J.moral_principles[i] \in corePrinciples

\* Math.max(0, Math.min(1, x))
Clamp01(x) == RMax(<<0, 1>>, RMin(<<1, 1>>, x))

\* A variant of CalculateMoralWeight that adds the bonus only for a core
\* principle both justifications invoke.
CalculateMoralWeightShared(J1, J2, gamma, coreBonus, corePrinciples) ==
  LET weight == RMul(gamma, JaccardSimilarity(J1, J2))
      shared == ToSet(J1.moral_principles) \cap ToSet(J2.moral_principles)
                  \cap corePrinciples
  IN Clamp01(IF shared # {} THEN RAdd(weight, coreBonus) ELSE weight)

\* calculateMoralWeight.
CalculateMoralWeight(J1, J2, gamma, coreBonus, corePrinciples) ==
  LET similarity == JaccardSimilarity(J1, J2)
      weight == RMul(gamma, similarity)
      hasCore1 == HasCoreMoralPrinciple(J1, corePrinciples)
      hasCore2 == HasCoreMoralPrinciple(J2, corePrinciples)
  IN Clamp01(IF hasCore1 /\ hasCore2 THEN RAdd(weight, coreBonus) ELSE weight)

\* A variant of NormalizeCredence that returns the credence as it is.
KeepCredence(pi) == pi

\* BeliefManager.normalizeCredence: the error it throws, or the credence.
NormalizeCredence(pi) ==
  LET sum == SumCredence(pi, DOMAIN pi)
  IN IF sum = <<0, 1>> THEN Thrown("Cannot normalize credence with sum=0")
     ELSE [outcome \in DOMAIN pi |-> RDiv(pi[outcome], sum)]

\* pi[outcome] || 0
ProbabilityOrZero(pi, outcome) == IF outcome \in DOMAIN pi THEN pi[outcome] ELSE <<0, 1>>

\* blendCredences.
BlendCredences(pi1, pi2, alpha, moralWeight) ==
  LET effectiveAlpha == RAdd(RMul(alpha, moralWeight),
                             RMul(RSub(<<1, 1>>, moralWeight), <<1, 2>>))
      allOutcomes == DOMAIN pi1 \cup DOMAIN pi2
      blended == [outcome \in allOutcomes |->
                    RAdd(RMul(effectiveAlpha, ProbabilityOrZero(pi1, outcome)),
                         RMul(RSub(<<1, 1>>, effectiveAlpha),
                              ProbabilityOrZero(pi2, outcome)))]
  IN NormalizeCredence(blended)

\* updateConfidence.
UpdateConfidence(kappa1, kappa2, beta, moralWeight) ==
  LET minKappa == RMin(kappa1, kappa2)
      stabilityFactor == RAdd(beta, RMul(RSub(<<1, 1>>, beta), moralWeight))
  IN Clamp01(RMul(minKappa, stabilityFactor))

\* mergeJustifications.
MergeJustifications(J1, J2) ==
  [facts |-> Dedupe(J1.facts \o J2.facts),
   rules |-> Dedupe(J1.rules \o J2.rules),
   moral_principles |-> Dedupe(J1.moral_principles \o J2.moral_principles),
   context |-> IF J1.context = J2.context THEN J1.context
               ELSE J1.context \o "; " \o J2.context]

\* pi[outcome] || 0.001
ProbabilityOrEpsilon(pi, outcome) ==
  IF outcome \in DOMAIN pi /\ pi[outcome] # <<0, 1>> THEN pi[outcome] ELSE <<1, 1000>>

\* Values Math.exp(-klDiv) may take when klDiv is not 0.
Exponentials == {<<1, 2>>, <<5, 4>>}

\* Math.exp(-klDiv) in calculateStabilityFactor: 1 when no probability of pi1
\* differs from pi2's, and otherwise the given positive number.
CredenceStability(pi1, pi2, exponential) ==
  IF \A outcome \in DOMAIN pi1 :
       ProbabilityOrEpsilon(pi1, outcome) = ProbabilityOrEpsilon(pi2, outcome)
  THEN <<1, 1>>
  ELSE exponential

\* calculateStabilityFactor, given the value of Math.exp(-klDiv).
CalculateStabilityFactor(credenceStability, kappa1, kappa2) ==
  LET change == RSub(kappa1, kappa2)
      kappaChange == <<Abs(change[1]), change[2]>>
      confidenceStability == RSub(<<1, 1>>, kappaChange)
  IN Clamp01(RAdd(RMul(<<3, 5>>, credenceStability), RMul(<<2, 5>>, confidenceStability)))

DefaultMoralCoreBonus == <<1, 10>>

\* revise: the error thrown, or { belief, delta }.
Revise(params, corePrinciples, existingBelief, newEvidence, now, exponential) ==
  LET moral_core_bonus == IF "moral_core_bonus" \in DOMAIN params
                          THEN params.moral_core_bonus ELSE DefaultMoralCoreBonus
      evidenceJ == IF "J" \in DOMAIN newEvidence THEN newEvidence.J ELSE existingBelief.J
      evidencePi == IF "pi" \in DOMAIN newEvidence THEN newEvidence.pi ELSE existingBelief.pi
      evidenceKappa == IF "kappa" \in DOMAIN newEvidence THEN newEvidence.kappa
                       ELSE existingBelief.kappa
      moralWeight == CalculateMoralWeight(existingBelief.J, evidenceJ, params.gamma,
                                          moral_core_bonus, corePrinciples)
      pi_new == BlendCredences(existingBelief.pi, evidencePi, params.alpha, moralWeight)
      kappa_new == UpdateConfidence(existingBelief.kappa, evidenceKappa, params.beta,
                                    moralWeight)
      J_new == MergeJustifications(existingBelief.J, evidenceJ)
  IN IF IsThrown(pi_new) THEN pi_new
     ELSE [belief |-> [proposition |-> existingBelief.proposition,
                       pi          |-> pi_new,
                       kappa       |-> kappa_new,
                       J           |-> J_new,
                       timestamp   |-> now,
                       source      |-> "revised"],
           delta  |-> [proposition      |-> existingBelief.proposition,
                       pi_before        |-> existingBelief.pi,
                       pi_after         |-> pi_new,
                       kappa_before     |-> existingBelief.kappa,
                       kappa_after      |-> kappa_new,
                       moral_weight     |-> moralWeight,
                       stability_factor |->
                         CalculateStabilityFactor(
                           CredenceStability(existingBelief.pi, pi_new, exponential),
                           existingBelief.kappa, kappa_new)]]

OtherJustification ==
  [facts |-> <<"f2", "f3">>, rules |-> <<"r1">>, moral_principles |-> <<"fairness">>,
   context |-> "ward"]

\* Beliefs that pass BeliefManager's validation.
ExistingBeliefs ==
  {BeliefOf("p1", PiHalf, <<1, 2>>, FullJustification),
   BeliefOf("p1", PiNear, <<1, 1>>, SparseJustification),
   BeliefOf("p2", [yes |-> <<1, 4>>, no |-> <<1, 4>>, maybe |-> <<129, 256>>], <<3, 4>>,
            OtherJustification)}

\* newEvidence: Partial<Belief> whose fields, where present, pass validation.
Evidence ==
  {<<>>,
   [pi |-> [yes |-> <<1, 4>>, no |-> <<3, 4>>]],
   [kappa |-> <<1, 1>>, J |-> FullJustification],
   [J |-> OtherJustification, source |-> "external"],
   [proposition |-> "p3", pi |-> [yes |-> <<1, 2>>, unsure |-> <<1, 2>>], kappa |-> <<1, 4>>,
    J |-> OtherJustification, source |-> "external"]}

\* Parameters a constructor accepts.
JWMCParamsPool ==
  {[alpha |-> <<3, 4>>, beta |-> <<1, 2>>, gamma |-> <<1, 2>>],
   [alpha |-> <<0, 1>>, beta |-> <<0, 1>>, gamma |-> <<1, 1>>, moral_core_bonus |-> <<1, 2>>],
   [alpha |-> <<1, 1>>, beta |-> <<1, 1>>, gamma |-> <<0, 1>>, moral_core_bonus |-> <<-1, 2>>],
   [alpha |-> <<1, 4>>, beta |-> <<3, 4>>, gamma |-> <<1, 1>>, moral_core_bonus |-> <<2, 1>>]}

\* The beliefs a caller passes to revise: a valid belief, or the belief the
\* preceding revise returned for one (a second revision of its proposition).
RevisableBeliefs ==
  ExistingBeliefs \cup
    (IF /\ jwRet.op = "revise"
        /\ ~IsThrown(jwRet.val)
        /\ jwRet.arg.existingBelief \in ExistingBeliefs
     THEN {jwRet.val.belief} ELSE {})

\* The evidence a belief is revised by: a second revision is by evidence that
\* carries a confidence.
EvidenceFor(existingBelief) ==
  IF existingBelief \in ExistingBeliefs THEN Evidence
  ELSE {evidence \in Evidence : "kappa" \in DOMAIN evidence}

JWMCRevise ==
  /\ \E existingBelief \in RevisableBeliefs, exponential \in Exponentials :
     \E newEvidence \in EvidenceFor(existingBelief),
        now \in {time \in Times : time >= existingBelief.timestamp} :
       jwRet' = [op |-> "revise",
                 arg |-> [existingBelief |-> existingBelief, newEvidence |-> newEvidence],
                 val |-> Revise(jwParams, jwCore, existingBelief, newEvidence, now,
                                exponential)]
  /\ UNCHANGED <<jwParams, jwCore>>
  /\ JWMCFrame

\* A variant of SetUpdated in which updatedBeliefs is the caller's map.
SetInPlace(maps, prop, belief) ==
  [maps EXCEPT !.beliefs = EntriesSet(@, prop, belief),
               !.updatedBeliefs = EntriesSet(@, prop, belief)]

\* updatedBeliefs.set(prop, belief): updatedBeliefs is a Map of its own, so
\* the caller's map (maps.beliefs) is not written.
SetUpdated(maps, prop, belief) ==
  [maps EXCEPT !.updatedBeliefs = EntriesSet(@, prop, belief)]

\* batchRevise's loop over beliefs.entries() from entry i on: the error a
\* revise throws, or the caller's map, updatedBeliefs and deltas at the end.
RECURSIVE BatchReviseFrom(_, _, _, _, _, _, _)
BatchReviseFrom(i, maps, params, corePrinciples, evidenceMap, now, exponential) ==
  IF i > Len(maps.beliefs) THEN maps
  ELSE LET prop == maps.beliefs[i].key
           existingBelief == maps.beliefs[i].value
       IN IF EntriesHas(evidenceMap, prop)
          THEN LET revised == Revise(params, corePrinciples, existingBelief,
                                     EntriesGet(evidenceMap, prop), now, exponential)
               IN IF IsThrown(revised) THEN revised
                  ELSE BatchReviseFrom(
                         i + 1,
                         [SetUpdated(maps, prop, revised.belief)
                            EXCEPT !.deltas = Append(@, revised.delta)],
                         params, corePrinciples, evidenceMap, now, exponential)
          ELSE BatchReviseFrom(i + 1, SetUpdated(maps, prop, existingBelief),
                               params, corePrinciples, evidenceMap, now, exponential)

\* batchRevise(beliefs, evidenceMap).
BatchRevise(params, corePrinciples, beliefs, evidenceMap, now, exponential) ==
  BatchReviseFrom(1, [beliefs |-> beliefs, updatedBeliefs |-> <<>>, deltas |-> <<>>],
                  params, corePrinciples, evidenceMap, now, exponential)

\* new Map([[belief.proposition, belief], ...])
MapOf(beliefs) ==
  [i \in 1..Len(beliefs) |-> [key |-> beliefs[i].proposition, value |-> beliefs[i]]]

BeliefMaps ==
  {MapOf(<<>>),
   MapOf(<<BeliefOf("p1", PiHalf, <<1, 2>>, FullJustification)>>),
   MapOf(<<BeliefOf("p1", PiHalf, <<1, 2>>, FullJustification),
           BeliefOf("p2", [yes |-> <<1, 4>>, no |-> <<1, 4>>, maybe |-> <<129, 256>>],
                    <<3, 4>>, OtherJustification)>>),
   MapOf(<<BeliefOf("p2", [yes |-> <<1, 4>>, no |-> <<1, 4>>, maybe |-> <<129, 256>>],
                    <<3, 4>>, OtherJustification),
           BeliefOf("p1", PiNear, <<1, 1>>, SparseJustification)>>)}

\* Evidence by proposition.  The empty partial {} is evidence too.
EvidenceMaps ==
  {<<>>,
   <<[key |-> "p1", value |-> [kappa |-> <<1, 1>>, J |-> FullJustification]]>>,
   <<[key |-> "p3", value |-> [pi |-> [yes |-> <<1, 4>>, no |-> <<3, 4>>]]],
     [key |-> "p2", value |-> <<>>]>>,
   <<[key |-> "p2", value |-> [pi |-> [yes |-> <<1, 4>>, no |-> <<3, 4>>]]],
     [key |-> "p1", value |-> [J |-> OtherJustification, source |-> "external"]]>>}

\* batchRevise: the result, and the caller's map as the call leaves it.
JWMCBatchRevise ==
  /\ \E beliefs \in BeliefMaps, evidenceMap \in EvidenceMaps, now \in Times,
          exponential \in Exponentials :
       LET result == BatchRevise(jwParams, jwCore, beliefs, evidenceMap, now, exponential)
       IN jwRet' = [op |-> "batchRevise",
                    arg |-> [beliefs |-> beliefs, evidenceMap |-> evidenceMap],
                    val |-> IF IsThrown(result) THEN result
                            ELSE [beliefs |-> result.updatedBeliefs,
                                  deltas |-> result.deltas],
                    after |-> IF IsThrown(result) THEN beliefs ELSE result.beliefs]
  /\ UNCHANGED <<jwParams, jwCore>>
  /\ JWMCFrame

JWMCGetParams ==
  /\ jwRet' = [op |-> "getParams", arg |-> <<>>, val |-> jwParams]
  /\ UNCHANGED <<jwParams, jwCore>>
  /\ JWMCFrame

\* updateParams: the parameters are assigned, then validated.
JWMCUpdateParams ==
  /\ \E newParams \in {[alpha |-> <<1, 2>>, moral_core_bonus |-> <<1, 4>>],
                       [beta |-> <<3, 2>>]} :
       /\ jwParams' = Spread(jwParams, newParams)
       /\ jwRet' = [op |-> "updateParams", arg |-> newParams,
                    val |-> IF JWMCParamsValid(Spread(jwParams, newParams))
                            THEN Undefined
                            ELSE Thrown("JWMC parameter must be in [0,1]")]
  /\ UNCHANGED jwCore
  /\ JWMCFrame

JWMCGetCoreMoralPrinciples ==
  /\ jwRet' = [op |-> "getCoreMoralPrinciples", arg |-> <<>>, val |-> jwCore]
  /\ UNCHANGED <<jwParams, jwCore>>
  /\ JWMCFrame

CorePrinciples == {"preserve_life"}

JWMCAddCoreMoralPrinciple ==
  /\ \E principle \in CorePrinciples :
       /\ jwCore' = jwCore \cup {principle}
       /\ jwRet' = [op |-> "addCoreMoralPrinciple", arg |-> principle, val |-> Undefined]
  /\ UNCHANGED jwParams
  /\ JWMCFrame

JWMCRemoveCoreMoralPrinciple ==
  /\ \E principle \in CorePrinciples :
       /\ jwCore' = jwCore \ {principle}
       /\ jwRet' = [op |-> "removeCoreMoralPrinciple", arg |-> principle, val |-> Undefined]
  /\ UNCHANGED jwParams
  /\ JWMCFrame

\* new JWMC(params, coreMoralPrinciples)
JWMCInit ==
  /\ \E params \in JWMCParamsPool : JWMCFreshWith(params, {})
  /\ LogFresh
  /\ GaugeFresh
  /\ EEUCCFresh
  /\ BeliefManagerFresh

JWMCNext ==
  \/ JWMCRevise
  \/ JWMCGetParams
  \/ JWMCUpdateParams
  \/ JWMCGetCoreMoralPrinciples
  \/ JWMCAddCoreMoralPrinciple
  \/ JWMCRemoveCoreMoralPrinciple

ReviseSpec == JWMCInit /\ [][JWMCNext]_vars

\* batchRevise with the operations that change what it reads.
JWMCBatchNext ==
  \/ JWMCBatchRevise
  \/ JWMCUpdateParams
  \/ JWMCAddCoreMoralPrinciple
  \/ JWMCRemoveCoreMoralPrinciple

BatchSpec == JWMCInit /\ [][JWMCBatchNext]_vars

(***************************************************************************)
(* Properties of JWMC.                                                     *)
(***************************************************************************)

\* C10: with alpha, beta and gamma in [0,1], revise of a valid belief with
\* valid evidence (which may omit the credence, the confidence or the
\* justification) returns a credence that sums to 1.0 and a confidence in
\* [0,1], with the proposition unchanged and source 'revised'.
C10_ReviseNormalizes ==
  (/\ jwRet.op = "revise"
   /\ \A name \in {"alpha", "beta", "gamma"} :
        0 <= jwParams[name][1] /\ jwParams[name][1] <= jwParams[name][2])
  => /\ ~IsThrown(jwRet.val)
     /\ SumCredence(jwRet.val.belief.pi, DOMAIN jwRet.val.belief.pi) = <<1, 1>>
     /\ 0 <= jwRet.val.belief.kappa[1]
     /\ jwRet.val.belief.kappa[1] <= jwRet.val.belief.kappa[2]
     /\ jwRet.val.belief.proposition = jwRet.arg.existingBelief.proposition
     /\ jwRet.val.belief.source = "revised"

\* A revision, by evidence without a credence, of a belief whose credence does
\* not sum to 1.
C10_Witness ==
  /\ jwRet.op = "revise"
  /\ ~IsThrown(jwRet.val)
  /\ "pi" \notin DOMAIN jwRet.arg.newEvidence
  /\ "kappa" \notin DOMAIN jwRet.arg.newEvidence
  /\ SumCredence(jwRet.arg.existingBelief.pi, DOMAIN jwRet.arg.existingBelief.pi) # <<1, 1>>
  /\ SumCredence(jwRet.val.belief.pi, DOMAIN jwRet.val.belief.pi) = <<1, 1>>
  /\ JWMCParamsValid(jwParams)


\* C11: the confidence revise returns is at most the smaller of the existing
\* belief's confidence and the evidence's (the existing belief's when the
\* evidence carries none); and when the belief revised is the one the
\* preceding revise returned, the confidence returned is at most the
\* confidence the proposition had before both revisions.
C11_ReviseNeverRaisesConfidence ==
  [][(jwRet'.op = "revise" /\ ~IsThrown(jwRet'.val))
     => LET existing == jwRet'.arg.existingBelief
            evidence == jwRet'.arg.newEvidence
            evidenceKappa == IF "kappa" \in DOMAIN evidence THEN evidence.kappa
                             ELSE existing.kappa
            kappa_new == jwRet'.val.belief.kappa
            chained == /\ jwRet.op = "revise"
                       /\ ~IsThrown(jwRet.val)
                       /\ existing = jwRet.val.belief
        IN /\ RLe(kappa_new, existing.kappa)
           /\ RLe(kappa_new, evidenceKappa)
           /\ chained => RLe(kappa_new, jwRet.arg.existingBelief.kappa)]_vars

\* The same for the revise calls of an engine whose alpha, beta and gamma are
\* in [0,1].
ReviseWithinDomainNeverRaisesConfidence ==
  [][(jwRet'.op = "revise" /\ ~IsThrown(jwRet'.val) /\ JWMCParamsValid(jwParams'))
     => LET existing == jwRet'.arg.existingBelief
            evidence == jwRet'.arg.newEvidence
            evidenceKappa == IF "kappa" \in DOMAIN evidence THEN evidence.kappa
                             ELSE existing.kappa
            kappa_new == jwRet'.val.belief.kappa
            chained == /\ jwRet.op = "revise"
                       /\ ~IsThrown(jwRet.val)
                       /\ existing = jwRet.val.belief
        IN /\ RLe(kappa_new, existing.kappa)
           /\ RLe(kappa_new, evidenceKappa)
           /\ chained => RLe(kappa_new, jwRet.arg.existingBelief.kappa)]_vars

\* C14: batchRevise returns a map with the propositions of the input map in
\* the input's order; a belief whose proposition has evidence is replaced by
\* what revise returns for it and contributes one delta, in order; a belief
\* without evidence is passed through as it is and contributes none; evidence
\* for other propositions changes nothing; the input map is left as it was.
C14_BatchReviseByProposition ==
  (jwRet.op = "batchRevise" /\ ~IsThrown(jwRet.val))
  => LET beliefs == jwRet.arg.beliefs
         evidenceMap == jwRet.arg.evidenceMap
         updated == jwRet.val.beliefs
         deltas == jwRet.val.deltas
         hasEvidence(entry) == EntriesHas(evidenceMap, entry.key)
         revisedEntries == SelectSeq(beliefs, hasEvidence)
     IN /\ Len(updated) = Len(beliefs)
        /\ \A i \in 1..Len(beliefs) :
             /\ updated[i].key = beliefs[i].key
             /\ IF hasEvidence(beliefs[i])
                THEN \E now \in Times, exponential \in Exponentials :
                       updated[i].value =
                         Revise(jwParams, jwCore, beliefs[i].value,
                                EntriesGet(evidenceMap, beliefs[i].key), now,
                                exponential).belief
                ELSE updated[i].value = beliefs[i].value
        /\ Len(deltas) = Len(revisedEntries)
        /\ \A j \in 1..Len(deltas) :
             \E now \in Times, exponential \in Exponentials :
               deltas[j] =
                 Revise(jwParams, jwCore, revisedEntries[j].value,
                        EntriesGet(evidenceMap, revisedEntries[j].key), now,
                        exponential).delta
        /\ jwRet.after = beliefs

\* A batch of two beliefs, one with evidence and one without, and evidence
\* for a proposition that is not in the batch.
C14_Witness ==
  /\ jwRet.op = "batchRevise"
  /\ ~IsThrown(jwRet.val)
  /\ Len(jwRet.arg.beliefs) = 2
  /\ Len(jwRet.val.deltas) = 1
  /\ \E i \in 1..Len(jwRet.arg.evidenceMap) :
       ~EntriesHas(jwRet.arg.beliefs, jwRet.arg.evidenceMap[i].key)
  /\ \E i \in 1..2 : jwRet.val.beliefs[i].value = jwRet.arg.beliefs[i].value
  /\ \E i \in 1..2 : jwRet.val.beliefs[i].value.source = "revised"

\* new JWMC(params, coreMoralPrinciples) with core principles supplied.
CoreSets == {{}, {"preserve_life"}, {"preserve_life", "fairness"}}

MoralWeightInit ==
  /\ \E params \in JWMCParamsPool, coreMoralPrinciples \in CoreSets :
       JWMCFreshWith(params, coreMoralPrinciples)
  /\ LogFresh
  /\ GaugeFresh
  /\ EEUCCFresh
  /\ BeliefManagerFresh

MoralWeightNext ==
  \/ JWMCRevise
  \/ JWMCGetCoreMoralPrinciples

MoralWeightSpec == MoralWeightInit /\ [][MoralWeightNext]_vars

\* The justification revise takes as the evidence's, and the bonus in force.
EvidenceJustification(arg) ==
  IF "J" \in DOMAIN arg.newEvidence THEN arg.newEvidence.J ELSE arg.existingBelief.J
CoreBonusInForce ==
  IF "moral_core_bonus" \in DOMAIN jwParams THEN jwParams.moral_core_bonus
  ELSE DefaultMoralCoreBonus
CorePrinciplesOf(J) == ToSet(J.moral_principles) \cap jwCore

UnionExistingFirst(first, second, merged) ==
  /\ ToSet(merged) = ToSet(first) \cup ToSet(second)
  /\ Len(merged) = Cardinality(ToSet(merged))
  /\ SubSeq(merged, 1, Len(first)) = first
  /\ \A i, j \in 1..Len(second) :
       (i < j /\ second[i] \notin ToSet(first) /\ second[j] \notin ToSet(first)) =>
         \E m, n \in 1..Len(merged) : m < n /\ merged[m] = second[i] /\ merged[n] = second[j]

\* The merged lists and context of a revised belief's justification.
MergedListsAndContext(J1, J2, J) ==
  /\ UnionExistingFirst(J1.facts, J2.facts, J.facts)
  /\ UnionExistingFirst(J1.rules, J2.rules, J.rules)
  /\ UnionExistingFirst(J1.moral_principles, J2.moral_principles, J.moral_principles)
  /\ J.context = IF J1.context = J2.context THEN J1.context
                 ELSE J1.context \o "; " \o J2.context

\* C26: the justification of a belief returned by revise has the
\* duplicate-free union of both sides as facts, rules and moral_principles
\* (existing items first), the two contexts joined by "; " when they differ,
\* and carries revision metadata (method tag, moral_weight, revision
\* timestamp), with a conflict flag and a resolution note exactly when the
\* moral weight is below 1/2.
C26_MergedJustificationCarriesMetadata ==
  (jwRet.op = "revise" /\ ~IsThrown(jwRet.val)) =>
    LET J == jwRet.val.belief.J
        w == jwRet.val.delta.moral_weight
    IN /\ MergedListsAndContext(jwRet.arg.existingBelief.J,
                                EvidenceJustification(jwRet.arg), J)
       /\ {"revision_method", "moral_weight", "revised_at"} \subseteq DOMAIN J
       /\ ({"conflict_detected", "resolution_strategy"} \subseteq DOMAIN J)
            <=> RLt(w, <<1, 2>>)

\* The part of C26 that mergeJustifications has: the merged lists and the
\* context, and no field besides these four.
MergedJustificationIsUnion ==
  (jwRet.op = "revise" /\ ~IsThrown(jwRet.val)) =>
    /\ MergedListsAndContext(jwRet.arg.existingBelief.J,
                             EvidenceJustification(jwRet.arg), jwRet.val.belief.J)
    /\ DOMAIN jwRet.val.belief.J = {"facts", "rules", "moral_principles", "context"}

\* constraints.reduce((sum, v) => sum + v.penalty, 0) on the violations of a
\* breakdown decide has produced.
RECURSIVE SumOfPenalties(_)
SumOfPenalties(violations) ==
  IF violations = <<>> THEN <<0, 1>>
  ELSE RAdd(Head(violations).penalty, SumOfPenalties(Tail(violations)))

\* The Base EU, Total Penalty and Final EEU cells exportCSV prints for a
\* chosen breakdown, in units of 0.0001.
CsvCells(chosen) ==
  [BaseEU |-> ToFixed(chosen.eu_base, 4),
   TotalPenalty |-> ToFixed(SumOfPenalties(chosen.constraints), 4),
   FinalEEU |-> ToFixed(chosen.eeu_total, 4)]

\* C30: in the CSV row of a breakdown decide has produced, the Total Penalty
\* column is the cascaded penalty decide subtracted, so that Final EEU is
\* Base EU minus Total Penalty to the four decimals printed, whatever the
\* priorities of the constraints violated.
C30_CsvTotalPenaltyIsCascaded ==
  eeRet.op = "decide" =>
    \A i \in 1..Len(eeRet.val) :
      LET chosen == eeRet.val[i]
          cells == CsvCells(chosen)
      IN /\ cells.TotalPenalty = ToFixed(RSub(chosen.eu_base, chosen.eeu_total), 4)
         /\ Abs(cells.FinalEEU - (cells.BaseEU - cells.TotalPenalty)) <= 1

\* What exportCSV has: the Total Penalty column is the plain sum of the
\* violations' penalties, which is the penalty decide subtracted when every
\* violated constraint that is found has priority 1.
CsvTotalPenaltyIsPlainSum ==
  eeRet.op = "decide" =>
    \A i \in 1..Len(eeRet.val) :
      LET chosen == eeRet.val[i]
          cells == CsvCells(chosen)
          top == \A k \in 1..Len(chosen.constraints) :
                   LET c == FindConstraint(eeConstraints, chosen.constraints[k].constraint_id)
                   IN c # Undefined /\ c.priority = 1
      IN top => /\ cells.TotalPenalty = ToFixed(RSub(chosen.eu_base, chosen.eeu_total), 4)
                /\ Abs(cells.FinalEEU - (cells.BaseEU - cells.TotalPenalty)) <= 1

\* C29: each stored belief's proposition is the key it is stored under, and
\* getAllBeliefs never holds two beliefs with the same proposition.
C29_StoredUnderOwnProposition ==
  /\ \A i \in 1..Len(bmBeliefs) : bmBeliefs[i].value.proposition = bmBeliefs[i].key
  /\ \A i, j \in 1..Len(bmBeliefs) :
       bmBeliefs[i].value.proposition = bmBeliefs[j].value.proposition => i = j

\* What the store has: no key is held twice, and an updateBelief that does
\* not raise stores under the key of the call the existing belief overlaid
\* by the updates, a proposition among them included.
StoredUnderKeyOfCall ==
  /\ \A i, j \in 1..Len(bmBeliefs) : bmBeliefs[i].key = bmBeliefs[j].key => i = j
  /\ (bmRet.op = "updateBelief" /\ ~IsThrown(bmRet.val)) =>
       /\ EntriesGet(bmBeliefs, bmRet.arg.proposition) = bmRet.val
       /\ "proposition" \in DOMAIN bmRet.arg.updates =>
            bmRet.val.proposition = bmRet.arg.updates.proposition

(***************************************************************************)
(* The parameters of the two engines (JWMC.ts 276-301, EEUCC.ts 458-477).  *)
(***************************************************************************)

\* EEUCC.getParams(): a copy of the parameters.
EEUCCGetParams ==
  /\ eeRet' = [op |-> "getParams", arg |-> <<>>, val |-> eeParams]
  /\ UNCHANGED <<eeParams, eeConstraints>>
  /\ EEUCCFrame

\* EEUCC.updateParams: the parameters are assigned, then validated.
EEUCCUpdateParams ==
  /\ \E newParams \in {[lambda |-> <<1, 4>>], [lambda |-> <<1, 1>>], [lambda |-> <<0, 1>>],
                       [base_utility_fn |-> "caller"]} :
       /\ eeParams' = Spread(eeParams, newParams)
       /\ eeRet' = [op |-> "updateParams", arg |-> newParams,
                    val |-> IF EEUCCParamsValid(Spread(eeParams, newParams))
                            THEN Undefined
                            ELSE Thrown("EEUCC parameter must be in (0,1)")]
  /\ UNCHANGED eeConstraints
  /\ EEUCCFrame

\* Both engines as their constructors leave them.
ParamsInit ==
  /\ \E params \in JWMCParamsPool : JWMCFreshWith(params, {})
  /\ \E params \in {[lambda |-> <<3, 5>>, base_utility_fn |-> "none"],
                    [lambda |-> <<1, 2>>, base_utility_fn |-> "caller"]} :
       EEUCCFreshWith(params, <<>>)
  /\ LogFresh
  /\ GaugeFresh
  /\ BeliefManagerFresh

ParamsNext ==
  \/ JWMCUpdateParams
  \/ JWMCGetParams
  \/ EEUCCUpdateParams
  \/ EEUCCGetParams

ParamsSpec == ParamsInit /\ [][ParamsNext]_vars

InUnitInterval(x) == RLe(<<0, 1>>, x) /\ RLe(x, <<1, 1>>)

\* C28: after the constructors and any updateParams calls, those that raise
\* included, the revision engine's alpha, beta and gamma are in [0,1] and the
\* decision engine's lambda is strictly between 0 and 1 (a rejected call
\* leaves the parameters as they were).
C28_ParamsStayValid ==
  /\ InUnitInterval(jwParams.alpha)
  /\ InUnitInterval(jwParams.beta)
  /\ InUnitInterval(jwParams.gamma)
  /\ RLt(<<0, 1>>, eeParams.lambda)
  /\ RLt(eeParams.lambda, <<1, 1>>)

\* What the two updateParams have: the parameters are those of the merge,
\* valid or not, and the error is raised exactly when they are not valid.
UpdateParamsAssignsBeforeValidating ==
  /\ (jwRet.op = "updateParams") =>
       /\ \A k \in DOMAIN jwRet.arg : jwParams[k] = jwRet.arg[k]
       /\ IsThrown(jwRet.val) <=> ~JWMCParamsValid(jwParams)
  /\ (eeRet.op = "updateParams") =>
       /\ \A k \in DOMAIN eeRet.arg : eeParams[k] = eeRet.arg[k]
       /\ IsThrown(eeRet.val) <=> ~EEUCCParamsValid(eeParams)

\* The trend calculate reports for a gauge over the given points: direction
\* "stable" when |slope| < 0.01, "improving" when the slope is positive,
\* "declining" otherwise; magnitude |slope|.
TrendOver(name, points) ==
  LET values == [i \in 1..Len(points) |-> ScoreOf(points[i], name)]
      slope == Slope(values)
      magnitude == <<Abs(slope[1]), slope[2]>>
  IN [gauge |-> IF name = "overall" THEN "overall_vast_score" ELSE name,
      direction |-> IF RLt(magnitude, <<1, 100>>) THEN "stable"
                    ELSE IF slope[1] > 0 THEN "improving" ELSE "declining",
      magnitude |-> magnitude,
      window_size |-> Len(points)]

\* The last min(history length, w) points of the history.
LastPoints(history, w) ==
  SubSeq(history, Len(history) - Min2(Len(history), w) + 1, Len(history))

\* The trends of a calculate call, one per gauge, over the last
\* min(history length, window_size) points.
TrendsOverLastPoints ==
  /\ Len(gaugeRet.val.trends) = Len(GaugeNames)
  /\ \A i \in 1..Len(GaugeNames) :
       gaugeRet.val.trends[i] = TrendOver(GaugeNames[i], LastPoints(scoreHistory, windowSize))

\* C27: calculate returns no trends while the history holds fewer than 3
\* points; otherwise it returns one trend per gauge, each over the last
\* min(history length, window_size) points and never over fewer than 3
\* points, with the direction and magnitude of the regression slope.
C27_TrendsNeedThreePoints ==
  gaugeRet.op = "calculate" =>
    IF Len(scoreHistory) < 3 THEN gaugeRet.val.trends = <<>>
    ELSE /\ TrendsOverLastPoints
         /\ \A i \in 1..Len(gaugeRet.val.trends) : gaugeRet.val.trends[i].window_size >= 3

\* The part of C27 that detectTrends has: the test is on the length of the
\* history, and the regression is over the last window_size points of it,
\* however few.
TrendsOverRecentWindow ==
  gaugeRet.op = "calculate" =>
    IF Len(scoreHistory) < 3 THEN gaugeRet.val.trends = <<>>
    ELSE TrendsOverLastPoints

(***************************************************************************)
(* GaugeMonitor: the four gauge computations (GaugeMonitor.ts, 98-274,     *)
(* 495-510, and BeliefManager.calculateEntropy).  Arithmetic is exact;     *)
(* Math.log2 is exact on powers of two; Math.log and Math.exp are taken to *)
(* four decimals at the arguments the inputs lead to; a returned score is  *)
(* counted in 1/10000, rounded down.                                       *)
(***************************************************************************)

MaxScoreCalls == 1   \* calculate calls on beliefs allowed before the model stops

\* A number as a score counted in 1/10000.
Units(x) == (x[1] * 10000) \div x[2]

RAbs(x) == <<Abs(x[1]), x[2]>>

\* reduce((a, b) => a + b, 0) over a list of numbers
RECURSIVE RSum(_)
RSum(xs) == IF Len(xs) = 0 THEN <<0, 1>> ELSE RAdd(Head(xs), RSum(Tail(xs)))

\* Math.log2 of a quotient of powers of two.
RECURSIVE Log2OfPowerOfTwo(_)
Log2OfPowerOfTwo(n) == IF n = 1 THEN 0 ELSE 1 + Log2OfPowerOfTwo(n \div 2)
Log2(x) == <<Log2OfPowerOfTwo(x[1]) - Log2OfPowerOfTwo(x[2]), 1>>

\* Math.log, to four decimals.
Ln(x) ==
  CASE x = <<1, 1>>   -> <<0, 1>>
    [] x = <<2, 1>>   -> <<6931, 10000>>
    [] x = <<1, 2>>   -> <<-6931, 10000>>
    [] x = <<500, 1>> -> <<31073, 5000>>
    [] x = <<1, 500>> -> <<-31073, 5000>>

\* Math.exp, to four decimals.
Exp(x) ==
  CASE x = <<0, 1>>               -> <<1, 1>>
    [] x = <<-11043, 4000>>       -> <<79, 1250>>
    [] x = <<-3434427, 5000000>>  -> <<5031, 10000>>

\* BeliefManager.calculateEntropy
RECURSIVE EntropyOver(_, _)
EntropyOver(pi, outcomes) ==
  IF outcomes = {} THEN <<0, 1>>
  ELSE LET outcome == CHOOSE o \in outcomes : TRUE
           prob == pi[outcome]
           rest == EntropyOver(pi, outcomes \ {outcome})
       IN IF RLt(<<0, 1>>, prob) THEN RSub(rest, RMul(prob, Log2(prob))) ELSE rest

CalculateEntropy(pi) == EntropyOver(pi, DOMAIN pi)

\* calculateCalibration: the accuracy estimate of one belief
AccuracyEstimate(belief) ==
  LET entropy == CalculateEntropy(belief.pi)
      maxEntropy == Log2(<<Cardinality(DOMAIN belief.pi), 1>>)
      normalizedEntropy == IF RLt(<<0, 1>>, maxEntropy) THEN RDiv(entropy, maxEntropy)
                           ELSE <<0, 1>>
  IN RSub(<<1, 1>>, normalizedEntropy)

\* calculateCalibration(beliefs); beliefs are the map's values in its order
CalculateCalibration(beliefs) ==
  IF Len(beliefs) = 0 THEN 0
  ELSE LET count == <<Len(beliefs), 1>>
           totalConfidence == RSum([i \in 1..Len(beliefs) |-> beliefs[i].kappa])
           totalEntropy == RSum([i \in 1..Len(beliefs) |-> AccuracyEstimate(beliefs[i])])
           avgConfidence == RDiv(totalConfidence, count)
           avgAccuracy == RDiv(totalEntropy, count)
           calibration == RSub(<<1, 1>>, RAbs(RSub(avgConfidence, avgAccuracy)))
       IN Units(Clamp01(calibration))

\* calculateNormativeAlignment: does any belief invoke the constraint's principle
PrinciplePresent(beliefs, constraint) ==
  \E i \in 1..Len(beliefs) :
    \/ \E j \in 1..Len(beliefs[i].J.moral_principles) :
         beliefs[i].J.moral_principles[j] = constraint.principle
    \/ \E j \in 1..Len(beliefs[i].J.rules) :
         Includes(ToLowerCase(beliefs[i].J.rules[j]), ToLowerCase(constraint.principle))

\* constraint.weight * (1 / constraint.priority)
AlignmentWeight(constraint) == RMul(constraint.weight, <<1, constraint.priority>>)

\* context.moral_stakes || 0.5
MoralStakesOrHalf(context) ==
  IF "moral_stakes" \in DOMAIN context /\ context.moral_stakes # <<0, 1>>
  THEN context.moral_stakes ELSE <<1, 2>>

\* calculateNormativeAlignment(beliefs, constraints, context)
CalculateNormativeAlignment(beliefs, constraints, context) ==
  IF Len(constraints) = 0 THEN 10000
  ELSE LET weights == [i \in 1..Len(constraints) |-> AlignmentWeight(constraints[i])]
           aligned == [i \in 1..Len(constraints) |->
                         IF PrinciplePresent(beliefs, constraints[i]) THEN weights[i]
                         ELSE <<0, 1>>]
           totalAlignment == RSum(aligned)
           totalWeight == RSum(weights)
           alignment == IF RLt(<<0, 1>>, totalWeight) THEN RDiv(totalAlignment, totalWeight)
                        ELSE <<1, 2>>
           bonus == IF RLt(<<7, 10>>, MoralStakesOrHalf(context)) THEN <<1, 10>>
                    ELSE <<0, 1>>
       IN Units(Clamp01(RAdd(alignment, bonus)))

\* pi[outcome] || 0.001
ProbabilityOrSmall(pi, outcome) ==
  IF outcome \in DOMAIN pi /\ pi[outcome] # <<0, 1>> THEN pi[outcome] ELSE <<1, 1000>>

\* calculateKLDivergence(pi1, pi2)
RECURSIVE KLOver(_, _, _)
KLOver(pi1, pi2, outcomes) ==
  IF outcomes = {} THEN <<0, 1>>
  ELSE LET outcome == CHOOSE o \in outcomes : TRUE
           p1 == ProbabilityOrSmall(pi1, outcome)
           p2 == ProbabilityOrSmall(pi2, outcome)
           rest == KLOver(pi1, pi2, outcomes \ {outcome})
       IN IF RLt(<<0, 1>>, p1) THEN RAdd(rest, RMul(p1, Ln(RDiv(p1, p2)))) ELSE rest

CalculateKLDivergence(pi1, pi2) ==
  RMax(<<0, 1>>, KLOver(pi1, pi2, (DOMAIN pi1) \cup (DOMAIN pi2)))

\* calculateCoherence(beliefs)
CalculateCoherence(beliefs) ==
  IF Len(beliefs) < 2 THEN 10000
  ELSE LET n == Len(beliefs)
           confidences == [i \in 1..n |-> beliefs[i].kappa]
           avgConfidence == RDiv(RSum(confidences), <<n, 1>>)
           variance == RDiv(RSum([i \in 1..n |->
                                    RPow(RSub(confidences[i], avgConfidence), 2)]),
                            <<n, 1>>)
           confidenceCoherence == RSub(<<1, 1>>, RMin(<<1, 1>>, RMul(variance, <<4, 1>>)))
           pairs == {<<i, j>> \in (1..n) \X (1..n) : i < j}
           RECURSIVE SumKL(_)
           SumKL(ps) ==
             IF ps = {} THEN <<0, 1>>
             ELSE LET p == CHOOSE q \in ps : TRUE
                  IN RAdd(CalculateKLDivergence(beliefs[p[1]].pi, beliefs[p[2]].pi),
                          SumKL(ps \ {p}))
           comparisons == Cardinality(pairs)
           avgKLDivergence == IF comparisons > 0
                              THEN RDiv(SumKL(pairs), <<comparisons, 1>>)
                              ELSE SumKL(pairs)
           credenceCoherence == Exp(RSub(<<0, 1>>, avgKLDivergence))
           coherence == RAdd(RMul(<<6, 10>>, credenceCoherence),
                             RMul(<<4, 10>>, confidenceCoherence))
       IN Units(Clamp01(coherence))

\* calculateReasoning: the number before it is clamped
ReasoningOf(beliefs) ==
  LET count == <<Len(beliefs), 1>>
      depth(b) == Len(b.J.facts) + Len(b.J.rules) + Len(b.J.moral_principles)
      totalJustificationDepth ==
        RSum([i \in 1..Len(beliefs) |-> RMul(<<depth(beliefs[i]), 1>>, beliefs[i].kappa)])
      totalConfidence == RSum([i \in 1..Len(beliefs) |-> beliefs[i].kappa])
      avgDepth == RDiv(totalJustificationDepth, count)
      avgConfidence == RDiv(totalConfidence, count)
      depthScore == RMin(<<1, 1>>, RDiv(avgDepth, <<10, 1>>))
      consistencyBonus == RMul(RMul(avgConfidence, depthScore), <<2, 10>>)
  IN RAdd(depthScore, consistencyBonus)

\* A variant of CalculateReasoning that returns the number unclamped.
CalculateReasoningUnclamped(beliefs) ==
  IF Len(beliefs) = 0 THEN 0 ELSE Units(ReasoningOf(beliefs))

\* calculateReasoning(beliefs)
CalculateReasoning(beliefs) ==
  IF Len(beliefs) = 0 THEN 0 ELSE Units(Clamp01(ReasoningOf(beliefs)))

\* The four gauges of calculate, in the order of GaugeScoresOf.
SubScoresOf(beliefs, constraints, context) ==
  <<CalculateCalibration(beliefs),
    CalculateNormativeAlignment(beliefs, constraints, context),
    CalculateCoherence(beliefs),
    CalculateReasoning(beliefs)>>

\* Valid beliefs, as BeliefManager.createBelief accepts them.
DeepJustification ==
  [facts |-> <<"f1", "f2", "f3", "f4", "f5", "f6", "f7", "f8", "f9">>,
   rules |-> <<"rule_preserve_life">>,
   moral_principles |-> <<"autonomy", "beneficence">>, context |-> "icu"]

HesitantBelief == BeliefOf("p1", PiHalf, <<1, 2>>, SparseJustification)
CertainBelief == BeliefOf("p2", PiEdge, <<1, 1>>, FullJustification)
DeepBelief == BeliefOf("p3", PiHalf, <<1, 1>>, DeepJustification)

ZeroWeightConstraint == ConstraintOf("c0", "honesty", 1, <<1, 2>>, <<0, 1>>)

\* calculate's arguments: no belief, one belief, two beliefs in either
\* order; no constraint, constraints some belief invokes and some none does,
\* a constraint of weight 0; a context without moral_stakes, with high moral
\* stakes and with moral_stakes 0.
ScoreInputs ==
  LET c1 == ConstraintOf("c1", "preserve_life", 1, <<1, 10>>, <<9, 10>>)
      c2 == ConstraintOf("c2", "Fairness", 2, <<1, 2>>, <<1, 1>>)
      c4 == ConstraintOf("c4", "honesty", 3, <<2, 5>>, <<2, 1>>)
      plain == [scenario |-> "icu"]
      high == [scenario |-> "icu", moral_stakes |-> <<9, 10>>]
      zero == [scenario |-> "icu", moral_stakes |-> <<0, 1>>]
      input(b, c, x) == [beliefs |-> b, constraints |-> c, context |-> x]
  IN { input(<<>>, <<>>, plain),
       input(<<>>, <<c1>>, high),
       input(<<HesitantBelief>>, <<c1, c2>>, plain),
       input(<<CertainBelief>>, <<c1>>, high),
       input(<<HesitantBelief, CertainBelief>>, <<c1, c2>>, plain),
       input(<<CertainBelief, HesitantBelief>>, <<c2, c4>>, high),
       input(<<DeepBelief>>, <<c1>>, plain),
       input(<<CertainBelief>>, <<ZeroWeightConstraint>>, zero) }

\* calculate(beliefs, lastDecisionProposition, constraints, context), with the
\* four gauges computed from its arguments
GaugeCalculateScores ==
  /\ gaugeCalls < MaxScoreCalls
  /\ \E input \in ScoreInputs, timestamp \in GaugeNow(gaugeClock) :
       \E now \in GaugeNow(timestamp) :
         LET sub == SubScoresOf(input.beliefs, input.constraints, input.context)
             scores == GaugeScoresOf(sub, timestamp)
             history == PushHistory(scoreHistory, scores, windowSize)
             alerts == GenerateAlerts(scores, now, lastAlerts, alertCooldownMs,
                                      thresholds)
             trends == DetectTrends(history, windowSize)
         IN /\ scoreHistory' = history
            /\ lastAlerts' = SetLastAlerts(lastAlerts, alerts, now)
            /\ gaugeClock' = now
            /\ emitted' = emitted \o alerts
            /\ gaugeRet' = [op |-> "calculate", arg |-> input,
                            val |-> [scores |-> scores, alerts |-> alerts,
                                     trends |-> trends]]
  /\ gaugeCalls' = gaugeCalls + 1
  /\ UNCHANGED <<windowSize, alertCooldownMs, thresholds>>
  /\ GaugeFrame

ScoreNext ==
  \/ GaugeCalculateScores
  \/ GaugeGetHistory

ScoreSpec == GaugeInit /\ [][ScoreNext]_vars

\* C22: the four gauge scores and overall_vast_score that calculate returns
\* lie in [0,1], and overall_vast_score is 0.25 x calibration + 0.35 x
\* normative_alignment + 0.20 x coherence + 0.20 x reasoning (to the last
\* counted digit).
C22_ScoresInUnitIntervalWeightedSum ==
  gaugeRet.op = "calculate" =>
    LET scores == gaugeRet.val.scores
        weighted == 25 * scores.calibration + 35 * scores.normative_alignment
                      + 20 * scores.coherence + 20 * scores.reasoning
    IN /\ \A g \in {"calibration", "normative_alignment", "coherence", "reasoning",
                    "overall_vast_score"} : scores[g] \in 0..10000
       /\ Abs(100 * scores.overall_vast_score - weighted) < 100

\* C22 witness: calculate ran on two beliefs that differ in credence and
\* confidence and on two constraints of which one is invoked: calibration
\* 0.75, normative alignment 9/14, coherence 0.6 x exp(-KL) + 0.4 x 0.75,
\* reasoning 0.2875.
C22_Witness ==
  /\ gaugeRet.op = "calculate"
  /\ Len(gaugeRet.arg.beliefs) = 2 /\ Len(gaugeRet.arg.constraints) = 2
  /\ gaugeRet.val.scores.calibration = 7500
  /\ gaugeRet.val.scores.normative_alignment = 6428
  /\ gaugeRet.val.scores.coherence = 3379
  /\ gaugeRet.val.scores.reasoning = 2875

(***************************************************************************)
(* Configuration (createConfig, GaugeMonitor.ts 1032-1123).  A partial     *)
(* object is a record with the supplied properties only.                   *)
(***************************************************************************)

DefaultConfig ==
  [jwmc |-> [alpha |-> <<7, 10>>, beta |-> <<4, 5>>, gamma |-> <<1, 2>>,
             moral_core_bonus |-> <<1, 10>>],
   eeucc |-> [lambda |-> <<3, 5>>],
   gauges |-> [thresholds |-> [excellent |-> <<3, 4>>, good |-> <<3, 5>>,
                               fair |-> <<2, 5>>],
               window_size |-> 10,
               alert_cooldown_ms |-> 5000],
   loop |-> [max_ticks |-> 100, tick_delay_ms |-> 0],
   logging |-> [enabled |-> TRUE, verbose |-> FALSE,
                golden_logs_path |-> "__golden__/logs"]]

\* The empty object, and what spreading undefined adds.
NoProperties == <<>>

\* overrides.section, or nothing to spread when it is not supplied
SectionOf(overrides, section) ==
  IF section \in DOMAIN overrides THEN overrides[section] ELSE NoProperties

\* object?.property || default, for a number: missing and 0 yield the default
OrDefault(object, property, default) ==
  IF property \in DOMAIN object /\ object[property] # 0 THEN object[property]
  ELSE default

\* createConfig(overrides)
CreateConfig(overrides) ==
  LET gauges == SectionOf(overrides, "gauges") IN
    [jwmc |-> Spread(DefaultConfig.jwmc, SectionOf(overrides, "jwmc")),
     eeucc |-> Spread(DefaultConfig.eeucc, SectionOf(overrides, "eeucc")),
     gauges |->
       [thresholds |-> Spread(DefaultConfig.gauges.thresholds,
                              SectionOf(gauges, "thresholds")),
        window_size |-> OrDefault(gauges, "window_size",
                                  DefaultConfig.gauges.window_size),
        alert_cooldown_ms |-> OrDefault(gauges, "alert_cooldown_ms",
                                        DefaultConfig.gauges.alert_cooldown_ms)],
     loop |-> Spread(DefaultConfig.loop, SectionOf(overrides, "loop")),
     logging |-> Spread(DefaultConfig.logging, SectionOf(overrides, "logging"))]

\* A partial object made of the sections that are supplied.
PartialOf(sections) ==
  [name \in {n \in DOMAIN sections : sections[n] # [absent |-> TRUE]} |-> sections[name]]

Absent == [absent |-> TRUE]

\* overrides a caller supplies: each section absent, or with some fields,
\* among them fields set to 0.
ConfigOverrides ==
  { PartialOf([jwmc |-> j, eeucc |-> e, gauges |-> g, loop |-> l, logging |-> lg]) :
      j \in {Absent, [alpha |-> <<4, 5>>], [alpha |-> <<0, 1>>, gamma |-> <<1, 1>>]},
      e \in {Absent, [lambda |-> <<1, 2>>]},
      g \in {Absent, [window_size |-> 5], [window_size |-> 0],
             [alert_cooldown_ms |-> 0],
             [alert_cooldown_ms |-> 1000, thresholds |-> [fair |-> <<1, 2>>]]},
      l \in {Absent, [tick_delay_ms |-> 5], [max_ticks |-> 0]},
      lg \in {Absent, [verbose |-> TRUE]} }

\* createConfig(overrides) called by some caller
ConfigCreate ==
  /\ \E overrides \in ConfigOverrides :
       gaugeRet' = [op |-> "createConfig", arg |-> overrides,
                    val |-> CreateConfig(overrides)]
  /\ UNCHANGED <<scoreHistory, lastAlerts, windowSize, alertCooldownMs,
                 thresholds, gaugeClock, gaugeCalls, emitted>>
  /\ GaugeFrame

ConfigNext == ConfigCreate

ConfigSpec == GaugeInit /\ [][ConfigNext]_vars

\* The sections whose fields are numbers, flags or strings.
FlatSections == {"jwmc", "eeucc", "loop", "logging"}

\* Do the overrides supply section.field?
Supplied(overrides, section, field) ==
  section \in DOMAIN overrides /\ field \in DOMAIN overrides[section]

\* C24: in the configuration createConfig returns, every field supplied in
\* overrides has the supplied value (a supplied 0 included) and every field
\* not supplied has its DEFAULT_CONFIG value.
C24_CreateConfigKeepsOverrides ==
  gaugeRet.op = "createConfig" =>
    LET overrides == gaugeRet.arg
        config == gaugeRet.val
    IN /\ DOMAIN config = DOMAIN DefaultConfig
       /\ \A section \in FlatSections :
            /\ DOMAIN config[section] = DOMAIN DefaultConfig[section]
            /\ \A field \in DOMAIN DefaultConfig[section] :
                 config[section][field] =
                   IF Supplied(overrides, section, field)
                   THEN overrides[section][field]
                   ELSE DefaultConfig[section][field]
       /\ \A field \in {"window_size", "alert_cooldown_ms"} :
            config.gauges[field] =
              IF Supplied(overrides, "gauges", field)
              THEN overrides.gauges[field]
              ELSE DefaultConfig.gauges[field]
       /\ \A level \in DOMAIN DefaultConfig.gauges.thresholds :
            config.gauges.thresholds[level] =
              IF Supplied(overrides, "gauges", "thresholds")
                   /\ level \in DOMAIN overrides.gauges.thresholds
              THEN overrides.gauges.thresholds[level]
              ELSE DefaultConfig.gauges.thresholds[level]

\* The same for every supplied value other than a window_size or
\* alert_cooldown_ms of 0, which come out as the defaults.
CreateConfigKeepsNonZeroOverrides ==
  gaugeRet.op = "createConfig" =>
    LET overrides == gaugeRet.arg
        config == gaugeRet.val
    IN /\ \A section \in FlatSections :
            \A field \in DOMAIN DefaultConfig[section] :
              config[section][field] =
                IF Supplied(overrides, section, field)
                THEN overrides[section][field]
                ELSE DefaultConfig[section][field]
       /\ \A field \in {"window_size", "alert_cooldown_ms"} :
            config.gauges[field] =
              IF Supplied(overrides, "gauges", field) /\ overrides.gauges[field] # 0
              THEN overrides.gauges[field]
              ELSE DefaultConfig.gauges[field]

=============================================================================
